---- MODULE Spec2Model ----
(***************************************************************************)
(* eventrely-backend: the IAM context (sign-up, sign-in, JWT issue and     *)
(* verify, profile and password commands) and the reminder-management      *)
(* context (the Event aggregate and its command service).                  *)
(*                                                                         *)
(* Strings are sequences of one-character strings, so that lower(),        *)
(* strip(), isalnum() and the '@' test are computed, not assumed.          *)
(* Time is an integer number of clock ticks, TicksPerSec ticks per second. *)
(***************************************************************************)
EXTENDS Integers, Sequences, FiniteSets, TLC

VARIABLES users, events, nextEventId, tokens, now, last, inflight

vars == <<users, events, nextEventId, tokens, now, last, inflight>>

\* ------------------------------------------------------------------------
\* Bounds of the model
\* ------------------------------------------------------------------------
MaxEvents == 1

MaxClock == 1

\* ------------------------------------------------------------------------
\* Strings
\* ------------------------------------------------------------------------
UpperChars == <<"A", "B", "C", "X">>

LowerChars == <<"a", "b", "c", "x">>

\* str.lower() on one character
LowerChar(c) ==
    IF \E i \in 1..Len(UpperChars) : UpperChars[i] = c
    THEN LowerChars[CHOOSE i \in 1..Len(UpperChars) : UpperChars[i] = c]
    ELSE c

\* str.lower()
Lower(s) == [i \in 1..Len(s) |-> LowerChar(s[i])]

IsSpace(c) == c = " "

RECURSIVE LStrip(_)
LStrip(s) == IF s # <<>> /\ IsSpace(Head(s)) THEN LStrip(Tail(s)) ELSE s

RECURSIVE RStrip(_)
RStrip(s) ==
    IF s # <<>> /\ IsSpace(s[Len(s)]) THEN RStrip(SubSeq(s, 1, Len(s) - 1)) ELSE s

\* str.strip()
Strip(s) == RStrip(LStrip(s))

\* ------------------------------------------------------------------------
\* Optional values (None / a value)
\* ------------------------------------------------------------------------
Some(x) == [some |-> TRUE, v |-> x]

NoTitle == [some |-> FALSE, v |-> <<>>]

NoDate == [some |-> FALSE, v |-> [t |-> 0, tz |-> "utc"]]

\* ------------------------------------------------------------------------
\* Reminder status (ReminderStatus enum)
\* ------------------------------------------------------------------------
PENDING == "pending"

COMPLETED == "completed"

CANCELLED == "cancelled"

EXPIRED == "expired"

ReminderStatus == {PENDING, COMPLETED, CANCELLED, EXPIRED}

\* ------------------------------------------------------------------------
\* Error messages raised as ValueError by the reminder context
\* ------------------------------------------------------------------------
OK == "ok"

ERR_RESCHEDULE_PAST == "Cannot schedule event in the past"

ERR_CREATE_PAST == "Cannot create event in the past"

ERR_TITLE_EMPTY == "Title cannot be empty"

ERR_COMPLETE == "Cannot complete event with status"

ERR_CANCEL == "Cannot cancel a completed event"

ERR_EVENT_NOT_FOUND == "Event not found"

\* ------------------------------------------------------------------------
\* Event aggregate
\* ------------------------------------------------------------------------
NoEvent ==
    [id |-> 0, user_id |-> "", title |-> <<>>, event_date |-> 0,
     status |-> PENDING, created_at |-> 0, updated_at |-> 0]

\* ensure_utc: a datetime input is its wall-clock reading t (in ticks, as
\* read in UTC) and a tz tag; a naive one gets tzinfo UTC, so either way
\* the instant it denotes is t
ensure_utc(dt) == dt.t

reschedule_future_only(e, new_date, t) ==
    IF ensure_utc(new_date) <= t
    THEN [err |-> ERR_RESCHEDULE_PAST, ev |-> e]
    ELSE [err |-> OK,
          ev |-> [e EXCEPT !.event_date = ensure_utc(new_date), !.updated_at = t]]

reschedule_pending_only(e, new_date, t) ==
    IF e.status # PENDING
    THEN [err |-> ERR_RESCHEDULE_PAST, ev |-> e]
    ELSE IF ensure_utc(new_date) < t
    THEN [err |-> ERR_RESCHEDULE_PAST, ev |-> e]
    ELSE [err |-> OK,
          ev |-> [e EXCEPT !.event_date = ensure_utc(new_date), !.updated_at = t]]

\* Event.reschedule: only rule is "not in the past"; status is not consulted
reschedule(e, new_date, t) ==
    IF ensure_utc(new_date) < t
    THEN [err |-> ERR_RESCHEDULE_PAST, ev |-> e]
    ELSE [err |-> OK,
          ev |-> [e EXCEPT !.event_date = ensure_utc(new_date), !.updated_at = t]]

update_details_any_title(e, title, t) ==
    [err |-> OK,
     ev |-> [e EXCEPT !.title = IF title.some THEN title.v ELSE @,
                      !.updated_at = t]]

\* Event.update_details(title)
update_details(e, title, t) ==
    IF title.some /\ Strip(title.v) = <<>>
    THEN [err |-> ERR_TITLE_EMPTY, ev |-> e]
    ELSE [err |-> OK,
          ev |-> [e EXCEPT !.title = IF title.some THEN title.v ELSE @,
                           !.updated_at = t]]

mark_completed_noguard(e, t) ==
    [err |-> OK, ev |-> [e EXCEPT !.status = COMPLETED, !.updated_at = t]]

\* Event.mark_completed
mark_completed(e, t) ==
    IF e.status # PENDING
    THEN [err |-> ERR_COMPLETE, ev |-> e]
    ELSE [err |-> OK, ev |-> [e EXCEPT !.status = COMPLETED, !.updated_at = t]]

cancel_sets_expired(e, t) ==
    IF e.status # PENDING
    THEN [err |-> ERR_CANCEL, ev |-> e]
    ELSE [err |-> OK, ev |-> [e EXCEPT !.status = EXPIRED, !.updated_at = t]]

\* Event.cancel
cancel(e, t) ==
    IF e.status # PENDING
    THEN [err |-> ERR_CANCEL, ev |-> e]
    ELSE [err |-> OK, ev |-> [e EXCEPT !.status = CANCELLED, !.updated_at = t]]

\* Event.is_upcoming
is_upcoming(e, t) == e.status = PENDING /\ e.event_date >= t

\* ------------------------------------------------------------------------
\* Event repository (rows keyed by the autoincrement primary key)
\* ------------------------------------------------------------------------
\* EventRepositoryImpl.find_by_id
EventExists(evs, id) == id \in DOMAIN evs

\* EventRepositoryImpl.save of an already persistent row
SaveEvent(evs, e) == [evs EXCEPT ![e.id] = e]

\* EventRepositoryImpl.save of a new row: the database assigns the id
InsertEvent(evs, id, e) ==
    [i \in DOMAIN evs \cup {id} |-> IF i = id THEN [e EXCEPT !.id = id] ELSE evs[i]]

\* EventRepositoryImpl.delete: the row is removed
RemoveEvent(evs, id) == [i \in DOMAIN evs \ {id} |-> evs[i]]

\* ------------------------------------------------------------------------
\* Reminder command service: each operator returns the error raised (OK
\* when none) and the table after the call
\* ------------------------------------------------------------------------
create_event_future_only(evs, nid, user_id, title, event_date, t) ==
    IF ensure_utc(event_date) <= t
    THEN [err |-> ERR_CREATE_PAST, events |-> evs, id |-> 0]
    ELSE IF Strip(title) = <<>>
    THEN [err |-> ERR_TITLE_EMPTY, events |-> evs, id |-> 0]
    ELSE [err |-> OK,
          events |-> InsertEvent(evs, nid,
                        [NoEvent EXCEPT !.user_id = user_id, !.title = title,
                                        !.event_date = ensure_utc(event_date),
                                        !.status = PENDING,
                                        !.created_at = t, !.updated_at = t]),
          id |-> nid]

\* CommandServiceImpl.create_event
create_event(evs, nid, user_id, title, event_date, t) ==
    IF ensure_utc(event_date) < t
    THEN [err |-> ERR_CREATE_PAST, events |-> evs, id |-> 0]
    ELSE IF Strip(title) = <<>>
    THEN [err |-> ERR_TITLE_EMPTY, events |-> evs, id |-> 0]
    ELSE [err |-> OK,
          events |-> InsertEvent(evs, nid,
                        [NoEvent EXCEPT !.user_id = user_id, !.title = title,
                                        !.event_date = ensure_utc(event_date),
                                        !.status = PENDING,
                                        !.created_at = t, !.updated_at = t]),
          id |-> nid]

update_event_saves_each_step(evs, id, title, event_date, t) ==
    IF ~EventExists(evs, id)
    THEN [err |-> ERR_EVENT_NOT_FOUND, events |-> evs]
    ELSE LET r1 == IF title.some /\ title.v # <<>>
                   THEN update_details(evs[id], title, t)
                   ELSE [err |-> OK, ev |-> evs[id]]
             r2 == IF event_date.some
                   THEN reschedule(r1.ev, event_date.v, t)
                   ELSE [err |-> OK, ev |-> r1.ev]
         IN  IF r1.err # OK THEN [err |-> r1.err, events |-> evs]
             ELSE IF r2.err # OK THEN [err |-> r2.err, events |-> SaveEvent(evs, r1.ev)]
             ELSE [err |-> OK, events |-> SaveEvent(evs, r2.ev)]

\* CommandServiceImpl.update_event: the row is written only by the final
\* save, so an error raised by either aggregate call leaves the table as is
update_event(evs, id, title, event_date, t) ==
    IF ~EventExists(evs, id)
    THEN [err |-> ERR_EVENT_NOT_FOUND, events |-> evs]
    ELSE LET r1 == IF title.some /\ title.v # <<>>
                   THEN update_details(evs[id], title, t)
                   ELSE [err |-> OK, ev |-> evs[id]]
             r2 == IF event_date.some
                   THEN reschedule(r1.ev, event_date.v, t)
                   ELSE [err |-> OK, ev |-> r1.ev]
         IN  IF r1.err # OK THEN [err |-> r1.err, events |-> evs]
             ELSE IF r2.err # OK THEN [err |-> r2.err, events |-> evs]
             ELSE [err |-> OK, events |-> SaveEvent(evs, r2.ev)]

delete_event_soft(evs, id) ==
    IF ~EventExists(evs, id)
    THEN [err |-> ERR_EVENT_NOT_FOUND, events |-> evs]
    ELSE [err |-> OK, events |-> SaveEvent(evs, [evs[id] EXCEPT !.status = CANCELLED])]

\* CommandServiceImpl.delete_event
delete_event(evs, id) ==
    IF ~EventExists(evs, id)
    THEN [err |-> ERR_EVENT_NOT_FOUND, events |-> evs]
    ELSE [err |-> OK, events |-> RemoveEvent(evs, id)]

\* CommandServiceImpl.complete_event
complete_event(evs, id, t) ==
    IF ~EventExists(evs, id)
    THEN [err |-> ERR_EVENT_NOT_FOUND, events |-> evs]
    ELSE LET r == mark_completed(evs[id], t)
         IN  IF r.err # OK THEN [err |-> r.err, events |-> evs]
             ELSE [err |-> OK, events |-> SaveEvent(evs, r.ev)]

\* CommandServiceImpl.cancel_event
cancel_event(evs, id, t) ==
    IF ~EventExists(evs, id)
    THEN [err |-> ERR_EVENT_NOT_FOUND, events |-> evs]
    ELSE LET r == cancel(evs[id], t)
         IN  IF r.err # OK THEN [err |-> r.err, events |-> evs]
             ELSE [err |-> OK, events |-> SaveEvent(evs, r.ev)]

\* ------------------------------------------------------------------------
\* IAM: roles, limits and error messages
\* ------------------------------------------------------------------------
GENERAL == "general_user"

ADMIN == "admin_user"

UserRoleEnum == {GENERAL, ADMIN}

\* column default of User.role
DEFAULT_ROLE == GENERAL

MIN_PASSWORD_LEN == 8

USERNAME_MIN_LEN == 3

USERNAME_MAX_LEN == 50

ERR_USERNAME_TAKEN == "Username is already taken"

ERR_EMAIL_REGISTERED == "Email is already registered"

ERR_EMAIL_FORMAT == "Invalid email format"

ERR_USERNAME_LENGTH == "Username must be between 3 and 50 characters"

ERR_PASSWORD_SHORT == "Password must be at least 8 characters"

ERR_INVALID_CREDENTIALS == "Invalid credentials"

ERR_DEACTIVATED == "Account is deactivated"

ERR_WRONG_PASSWORD == "Current password is incorrect"

ERR_ALREADY_DEACTIVATED == "User account is already deactivated"

ERR_USER_NOT_FOUND == "User not found"

ERR_REFRESH_INVALID == "Invalid or expired refresh token"

ERR_REFRESH_USER == "User not found or account deactivated"

ERR_INVALID_TOKEN == "Invalid token"

\* the request body is refused by the pydantic model (HTTP 422)
ERR_REQUEST_VALIDATION == "request validation error"

\* the database refuses the row: unique constraint (not a ValueError)
ERR_INTEGRITY == "IntegrityError"

\* scalar_one_or_none() on more than one row (not a ValueError)
ERR_MULTIPLE_ROWS == "MultipleResultsFound"

\* ------------------------------------------------------------------------
\* String tests used by the IAM validators
\* ------------------------------------------------------------------------
\* c in s
Contains(s, c) == \E i \in 1..Len(s) : s[i] = c

\* s.replace(c, '')
Remove(s, c) == SelectSeq(s, LAMBDA ch : ch # c)

AlnumChars == {"a", "b", "c", "x", "A", "B", "C", "X"}

\* str.isalnum(): non-empty and every character alphanumeric
IsAlnum(s) == s # <<>> /\ \A i \in 1..Len(s) : s[i] \in AlnumChars

\* ------------------------------------------------------------------------
\* Request models of the auth endpoints
\* ------------------------------------------------------------------------
\* SignUpRequest: field constraints and validators; FALSE is a 422
SignUpRequestValid(req) ==
    /\ Len(req.username) >= USERNAME_MIN_LEN
    /\ Len(req.username) <= USERNAME_MAX_LEN
    /\ IsAlnum(Remove(Remove(req.username, "_"), "-"))
    /\ Contains(req.email, "@")
    /\ Len(req.password) >= MIN_PASSWORD_LEN
    /\ req.role \in UserRoleEnum

\* the validators' return values, carried into the command by the assembler
to_sign_up_command(req) ==
    [username |-> Strip(Lower(req.username)),
     email |-> Strip(Lower(req.email)),
     password |-> req.password,
     role |-> req.role,
     full_name |-> req.full_name]

\* UpdateProfileRequest.email_valid; FALSE is a 422
UpdateProfileRequestValid(req) ==
    (req.email.some /\ req.email.v # <<>>) => Contains(req.email.v, "@")

to_update_profile_command(user_id, req) ==
    [user_id |-> user_id,
     full_name |-> req.full_name,
     email |-> IF req.email.some /\ req.email.v # <<>>
               THEN Some(Strip(Lower(req.email.v)))
               ELSE [some |-> FALSE, v |-> <<>>]]

\* ChangePasswordRequest: new_password min_length; FALSE is a 422
ChangePasswordRequestValid(req) == Len(req.new_password) >= MIN_PASSWORD_LEN

\* ------------------------------------------------------------------------
\* User aggregate
\* ------------------------------------------------------------------------
NoHash == [salt |-> "", pw |-> <<>>]

NoUser ==
    [id |-> 0, username |-> <<>>, email |-> <<>>, hashed_password |-> NoHash,
     full_name |-> [some |-> FALSE, v |-> <<>>], role |-> DEFAULT_ROLE,
     is_active |-> FALSE]

\* bcrypt reads at most this many bytes of a password
BCRYPT_MAX_BYTES == 72

\* what bcrypt.hashpw and bcrypt.checkpw read of a password (one byte per
\* character of the alphabet used here)
BcryptInput(plain) ==
    IF Len(plain) <= BCRYPT_MAX_BYTES THEN plain ELSE SubSeq(plain, 1, BCRYPT_MAX_BYTES)

\* User.hash_password: bcrypt with a fresh salt; the digest stands for the
\* bytes it was computed from
hash_password(plain, salt) ==
    IF plain = <<>> \/ Len(plain) < MIN_PASSWORD_LEN
    THEN [err |-> ERR_PASSWORD_SHORT, hash |-> NoHash]
    ELSE [err |-> OK, hash |-> [salt |-> salt, pw |-> BcryptInput(plain)]]

\* User.verify_password: bcrypt.checkpw recomputes with the stored salt
verify_password(u, plain) == u.hashed_password.pw = BcryptInput(plain)

change_password_unverified(u, old, new, salt) ==
    LET h == hash_password(new, salt)
    IN  IF h.err # OK THEN [err |-> h.err, user |-> u]
        ELSE [err |-> OK, user |-> [u EXCEPT !.hashed_password = h.hash]]

\* User.change_password
change_password_agg(u, old, new, salt) ==
    IF ~verify_password(u, old)
    THEN [err |-> ERR_WRONG_PASSWORD, user |-> u]
    ELSE LET h == hash_password(new, salt)
         IN  IF h.err # OK THEN [err |-> h.err, user |-> u]
             ELSE [err |-> OK, user |-> [u EXCEPT !.hashed_password = h.hash]]

\* User.deactivate
deactivate(u) ==
    IF ~u.is_active
    THEN [err |-> ERR_ALREADY_DEACTIVATED, user |-> u]
    ELSE [err |-> OK, user |-> [u EXCEPT !.is_active = FALSE]]

\* User.update_profile
update_profile_agg(u, full_name, email) ==
    IF email.some /\ (email.v = <<>> \/ ~Contains(email.v, "@"))
    THEN [err |-> ERR_EMAIL_FORMAT, user |-> u]
    ELSE [err |-> OK,
          user |-> [u EXCEPT !.full_name = IF full_name.some THEN full_name ELSE @,
                             !.email = IF email.some THEN email.v ELSE @]]

can_authenticate_always(u) == TRUE

\* User.can_authenticate
can_authenticate(u) == u.is_active

\* User.is_admin / User.is_general_user
is_admin(u) == u.role = ADMIN

is_general_user(u) == u.role = GENERAL

\* ------------------------------------------------------------------------
\* User repository: the table is the sequence of rows, the id is the index
\* ------------------------------------------------------------------------
UserIds(us) == 1..Len(us)

\* UserRepositoryImpl.exists_by_username / exists_by_email: exact match
exists_by_username(us, username) == \E i \in UserIds(us) : us[i].username = username

exists_by_email(us, email) == \E i \in UserIds(us) : us[i].email = email

\* UserRepositoryImpl.find_by_id
UserExists(us, id) == id \in UserIds(us)

\* rows matched by find_by_username_or_email
MatchUsernameOrEmail(us, x) ==
    {i \in UserIds(us) : us[i].username = x \/ us[i].email = x}

NoUniqueCheck(us, u) == TRUE

\* unique=True on users.username and users.email: the row u may be written
UniqueOk(us, u) ==
    \A i \in UserIds(us) :
        i # u.id => (us[i].username # u.username /\ us[i].email # u.email)

\* UserRepositoryImpl.save of a new row (INSERT, autoincrement id)
InsertUser(us, u) ==
    IF UniqueOk(us, u)
    THEN [err |-> OK, users |-> Append(us, [u EXCEPT !.id = Len(us) + 1])]
    ELSE [err |-> ERR_INTEGRITY, users |-> us]

\* UserRepositoryImpl.save of a loaded row (UPDATE of that row)
SaveUser(us, u) ==
    IF UniqueOk(us, u)
    THEN [err |-> OK, users |-> [us EXCEPT ![u.id] = u]]
    ELSE [err |-> ERR_INTEGRITY, users |-> us]

\* ------------------------------------------------------------------------
\* JWT service
\* ------------------------------------------------------------------------
TicksPerSec == 2

ACCESS_TOKEN_EXPIRE_MINUTES == 30

REFRESH_TOKEN_EXPIRE_DAYS == 7

AccessLifetime == ACCESS_TOKEN_EXPIRE_MINUTES * 60 * TicksPerSec

RefreshLifetime == REFRESH_TOKEN_EXPIRE_DAYS * 24 * 60 * 60 * TicksPerSec

Lifetime(type) == IF type = "access" THEN AccessLifetime ELSE RefreshLifetime

\* str(user_id) and int(payload["sub"])
IdStrings == <<"1", "2", "3", "4">>

IdStr(n) == IdStrings[n]

ParseInt(str) == CHOOSE n \in 1..Len(IdStrings) : IdStrings[n] = str

\* jwt.encode: a datetime claim is written as whole seconds since the
\* epoch, the fraction of a second is dropped
NumericDate(t) == t \div TicksPerSec

SIGNED == "HS256 with the server secret"

NoToken ==
    [type |-> "none", sub |-> "", username |-> <<>>, email |-> <<>>,
     exp |-> 0, iat |-> 0, sig |-> "", issued |-> 0]

\* JWTService.create_access_token (issued: the instant of the call, which is
\* not part of the payload)
create_access_token(user_id, username, email, t) ==
    [type |-> "access", sub |-> IdStr(user_id), username |-> username,
     email |-> email, exp |-> NumericDate(t + AccessLifetime),
     iat |-> NumericDate(t), sig |-> SIGNED, issued |-> t]

\* JWTService.create_refresh_token
create_refresh_token(user_id, t) ==
    [type |-> "refresh", sub |-> IdStr(user_id), username |-> <<>>,
     email |-> <<>>, exp |-> NumericDate(t + RefreshLifetime),
     iat |-> NumericDate(t), sig |-> SIGNED, issued |-> t]

verify_token_exp_inclusive(tok, t) ==
    /\ tok.sig = SIGNED
    /\ ~(tok.exp * TicksPerSec < t)
    /\ ~(tok.iat * TicksPerSec > t)

\* JWTService.verify_token: jwt.decode checks the signature, then rejects
\* exp <= now and iat > now, now being the clock in seconds with its fraction
verify_token(tok, t) ==
    /\ tok.sig = SIGNED
    /\ ~(tok.exp * TicksPerSec <= t)
    /\ ~(tok.iat * TicksPerSec > t)

\* JWTService.get_user_id_from_token
get_user_id_from_token(tok, t) ==
    IF verify_token(tok, t)
    THEN [err |-> OK, user_id |-> ParseInt(tok.sub)]
    ELSE [err |-> ERR_INVALID_TOKEN, user_id |-> 0]

\* ------------------------------------------------------------------------
\* Bearer dependencies
\* ------------------------------------------------------------------------
get_current_user_same_email(us, tok, t) ==
    LET r == get_user_id_from_token(tok, t)
    IN  IF r.err # OK
        THEN [status |-> 401, err |-> r.err, user |-> NoUser]
        ELSE IF ~UserExists(us, r.user_id)
        THEN [status |-> 401, err |-> ERR_USER_NOT_FOUND, user |-> NoUser]
        ELSE IF ~can_authenticate(us[r.user_id])
        THEN [status |-> 401, err |-> ERR_DEACTIVATED, user |-> NoUser]
        ELSE IF tok.type = "access" /\ tok.email # us[r.user_id].email
        THEN [status |-> 401, err |-> ERR_INVALID_TOKEN, user |-> NoUser]
        ELSE [status |-> 200, err |-> OK, user |-> us[r.user_id]]

get_current_user_any_state(us, tok, t) ==
    LET r == get_user_id_from_token(tok, t)
    IN  IF r.err # OK
        THEN [status |-> 401, err |-> r.err, user |-> NoUser]
        ELSE IF ~UserExists(us, r.user_id)
        THEN [status |-> 401, err |-> ERR_USER_NOT_FOUND, user |-> NoUser]
        ELSE [status |-> 200, err |-> OK, user |-> us[r.user_id]]

\* get_current_user
get_current_user(us, tok, t) ==
    LET r == get_user_id_from_token(tok, t)
    IN  IF r.err # OK
        THEN [status |-> 401, err |-> r.err, user |-> NoUser]
        ELSE IF ~UserExists(us, r.user_id)
        THEN [status |-> 401, err |-> ERR_USER_NOT_FOUND, user |-> NoUser]
        ELSE IF ~can_authenticate(us[r.user_id])
        THEN [status |-> 401, err |-> ERR_DEACTIVATED, user |-> NoUser]
        ELSE [status |-> 200, err |-> OK, user |-> us[r.user_id]]

\* get_current_active_user
get_current_active_user(us, tok, t) ==
    LET r == get_current_user(us, tok, t)
    IN  IF r.status # 200 THEN r
        ELSE IF ~r.user.is_active
        THEN [status |-> 403, err |-> "Account is not active", user |-> NoUser]
        ELSE r

\* ------------------------------------------------------------------------
\* IAM command service
\* ------------------------------------------------------------------------
\* the User(...) constructed by sign_up: no role argument is passed, so the
\* row gets the column default
new_user(cmd, hash) ==
    [NoUser EXCEPT !.username = Strip(Lower(cmd.username)),
                   !.email = Strip(Lower(cmd.email)),
                   !.hashed_password = hash,
                   !.full_name = cmd.full_name,
                   !.is_active = TRUE]

sign_up_claims_row(us, cmd, salt) ==
    IF exists_by_username(us, cmd.username)
    THEN [err |-> ERR_USERNAME_TAKEN, users |-> us]
    ELSE IF exists_by_email(us, cmd.email)
    THEN [err |-> ERR_EMAIL_REGISTERED,
          users |-> [i \in DOMAIN us |->
                        IF us[i].email = cmd.email
                        THEN [us[i] EXCEPT !.username = Strip(Lower(cmd.username))]
                        ELSE us[i]]]
    ELSE IF ~Contains(cmd.email, "@")
    THEN [err |-> ERR_EMAIL_FORMAT, users |-> us]
    ELSE IF Len(cmd.username) < USERNAME_MIN_LEN \/ Len(cmd.username) > USERNAME_MAX_LEN
    THEN [err |-> ERR_USERNAME_LENGTH, users |-> us]
    ELSE LET h == hash_password(cmd.password, salt)
         IN  IF h.err # OK THEN [err |-> h.err, users |-> us]
             ELSE InsertUser(us, new_user(cmd, h.hash))

\* CommandServiceImpl.sign_up up to and including the save
sign_up(us, cmd, salt) ==
    IF exists_by_username(us, cmd.username)
    THEN [err |-> ERR_USERNAME_TAKEN, users |-> us]
    ELSE IF exists_by_email(us, cmd.email)
    THEN [err |-> ERR_EMAIL_REGISTERED, users |-> us]
    ELSE IF ~Contains(cmd.email, "@")
    THEN [err |-> ERR_EMAIL_FORMAT, users |-> us]
    ELSE IF Len(cmd.username) < USERNAME_MIN_LEN \/ Len(cmd.username) > USERNAME_MAX_LEN
    THEN [err |-> ERR_USERNAME_LENGTH, users |-> us]
    ELSE LET h == hash_password(cmd.password, salt)
         IN  IF h.err # OK THEN [err |-> h.err, users |-> us]
             ELSE InsertUser(us, new_user(cmd, h.hash))

sign_in_no_active_check(us, cmd) ==
    LET m == MatchUsernameOrEmail(us, Strip(Lower(cmd.username_or_email)))
    IN  IF Cardinality(m) > 1 THEN [err |-> ERR_MULTIPLE_ROWS, user_id |-> 0]
        ELSE IF m = {} THEN [err |-> ERR_INVALID_CREDENTIALS, user_id |-> 0]
        ELSE LET u == us[CHOOSE i \in m : TRUE]
             IN  IF ~verify_password(u, cmd.password)
                 THEN [err |-> ERR_INVALID_CREDENTIALS, user_id |-> 0]
                 ELSE [err |-> OK, user_id |-> u.id]

sign_in_active_first(us, cmd) ==
    LET m == MatchUsernameOrEmail(us, Strip(Lower(cmd.username_or_email)))
    IN  IF Cardinality(m) > 1 THEN [err |-> ERR_MULTIPLE_ROWS, user_id |-> 0]
        ELSE IF m = {} THEN [err |-> ERR_INVALID_CREDENTIALS, user_id |-> 0]
        ELSE LET u == us[CHOOSE i \in m : TRUE]
             IN  IF ~can_authenticate(u)
                 THEN [err |-> ERR_DEACTIVATED, user_id |-> 0]
                 ELSE IF ~verify_password(u, cmd.password)
                 THEN [err |-> ERR_INVALID_CREDENTIALS, user_id |-> 0]
                 ELSE [err |-> OK, user_id |-> u.id]

\* CommandServiceImpl.sign_in: the user found and the error raised
sign_in(us, cmd) ==
    LET m == MatchUsernameOrEmail(us, Strip(Lower(cmd.username_or_email)))
    IN  IF Cardinality(m) > 1 THEN [err |-> ERR_MULTIPLE_ROWS, user_id |-> 0]
        ELSE IF m = {} THEN [err |-> ERR_INVALID_CREDENTIALS, user_id |-> 0]
        ELSE LET u == us[CHOOSE i \in m : TRUE]
             IN  IF ~verify_password(u, cmd.password)
                 THEN [err |-> ERR_INVALID_CREDENTIALS, user_id |-> 0]
                 ELSE IF ~can_authenticate(u)
                 THEN [err |-> ERR_DEACTIVATED, user_id |-> 0]
                 ELSE [err |-> OK, user_id |-> u.id]

\* CommandServiceImpl.change_password
change_password(us, cmd, salt) ==
    IF ~UserExists(us, cmd.user_id)
    THEN [err |-> ERR_USER_NOT_FOUND, users |-> us]
    ELSE LET r == change_password_agg(us[cmd.user_id], cmd.old_password,
                                      cmd.new_password, salt)
         IN  IF r.err # OK THEN [err |-> r.err, users |-> us]
             ELSE SaveUser(us, r.user)

update_profile_name_first(us, cmd) ==
    IF ~UserExists(us, cmd.user_id)
    THEN [err |-> ERR_USER_NOT_FOUND, users |-> us]
    ELSE IF /\ cmd.email.some /\ cmd.email.v # <<>>
            /\ cmd.email.v # us[cmd.user_id].email
            /\ exists_by_email(us, cmd.email.v)
    THEN [err |-> ERR_EMAIL_REGISTERED,
          users |-> [us EXCEPT ![cmd.user_id].full_name =
                                   IF cmd.full_name.some THEN cmd.full_name ELSE @]]
    ELSE LET r == update_profile_agg(us[cmd.user_id], cmd.full_name, cmd.email)
         IN  IF r.err # OK THEN [err |-> r.err, users |-> us]
             ELSE SaveUser(us, r.user)

\* CommandServiceImpl.update_profile
update_profile(us, cmd) ==
    IF ~UserExists(us, cmd.user_id)
    THEN [err |-> ERR_USER_NOT_FOUND, users |-> us]
    ELSE IF /\ cmd.email.some /\ cmd.email.v # <<>>
            /\ cmd.email.v # us[cmd.user_id].email
            /\ exists_by_email(us, cmd.email.v)
    THEN [err |-> ERR_EMAIL_REGISTERED, users |-> us]
    ELSE LET r == update_profile_agg(us[cmd.user_id], cmd.full_name, cmd.email)
         IN  IF r.err # OK THEN [err |-> r.err, users |-> us]
             ELSE SaveUser(us, r.user)

\* CommandServiceImpl.deactivate_user
deactivate_user(us, user_id) ==
    IF ~UserExists(us, user_id)
    THEN [err |-> ERR_USER_NOT_FOUND, users |-> us]
    ELSE LET r == deactivate(us[user_id])
         IN  IF r.err # OK THEN [err |-> r.err, users |-> us]
             ELSE SaveUser(us, r.user)

refresh_without_active_check(us, tok, t) ==
    LET r == get_user_id_from_token(tok, t)
    IN  IF r.err # OK
        THEN [err |-> ERR_REFRESH_INVALID, access |-> NoToken]
        ELSE IF ~UserExists(us, r.user_id)
        THEN [err |-> ERR_REFRESH_USER, access |-> NoToken]
        ELSE [err |-> OK,
              access |-> create_access_token(r.user_id, us[r.user_id].username,
                                             us[r.user_id].email, t)]

\* CommandServiceImpl.refresh_access_token
refresh_access_token(us, tok, t) ==
    LET r == get_user_id_from_token(tok, t)
    IN  IF r.err # OK
        THEN [err |-> ERR_REFRESH_INVALID, access |-> NoToken]
        ELSE IF ~UserExists(us, r.user_id) \/ ~can_authenticate(us[r.user_id])
        THEN [err |-> ERR_REFRESH_USER, access |-> NoToken]
        ELSE [err |-> OK,
              access |-> create_access_token(r.user_id, us[r.user_id].username,
                                             us[r.user_id].email, t)]

\* ------------------------------------------------------------------------
\* Inputs of the reminder commands
\* ------------------------------------------------------------------------
OwnerIds == {"1"}

TitleRent == <<"A", "b">>

TitleBlank == <<" ">>

Titles == {TitleRent, <<"c">>, TitleBlank, <<>>}

\* dates around the current instant: timezone-aware, and naive at the boundary
DatesAround(t) ==
    {[t |-> d, tz |-> "utc"] : d \in {x \in {t - 1, t, t + 1} : x >= 0}}
        \cup {[t |-> t, tz |-> "naive"]}

NoInstant == [some |-> FALSE, v |-> 0]

\* the instant an optional command date denotes
InstantOf(d) == IF d.some THEN Some(ensure_utc(d.v)) ELSE NoInstant

\* the row before the call (NoEvent when the id is unknown)
Before(id) == IF EventExists(events, id) THEN events[id] ELSE NoEvent

\* ------------------------------------------------------------------------
\* State
\* ------------------------------------------------------------------------
NoLast ==
    [op |-> "none", err |-> OK, id |-> 0, at |-> 0, pre |-> NoEvent,
     title |-> NoTitle, date |-> NoInstant]

Init ==
    /\ users = <<>>
    /\ events = <<>>
    /\ nextEventId = 1
    /\ tokens = {}
    /\ now = 0
    /\ last = NoLast
    /\ inflight = {}

\* ------------------------------------------------------------------------
\* Reminder commands
\* ------------------------------------------------------------------------
CreateEvent ==
    /\ nextEventId <= MaxEvents
    /\ \E u \in OwnerIds, title \in Titles, d \in DatesAround(now) :
         LET r == create_event(events, nextEventId, u, title, d, now)
         IN  /\ events' = r.events
             /\ nextEventId' = IF r.err = OK THEN nextEventId + 1 ELSE nextEventId
             /\ last' = [op |-> "create_event", err |-> r.err, id |-> r.id,
                         at |-> now, pre |-> NoEvent,
                         title |-> NoTitle, date |-> NoInstant]
    /\ UNCHANGED <<users, tokens, now, inflight>>

UpdateEvent ==
    /\ \E id \in 1..MaxEvents, title \in {Some(x) : x \in Titles} \cup {NoTitle},
          d \in {Some(x) : x \in DatesAround(now)} \cup {NoDate} :
         LET r == update_event(events, id, title, d, now)
         IN  /\ events' = r.events
             /\ last' = [op |-> "update_event", err |-> r.err, id |-> id,
                         at |-> now, pre |-> Before(id),
                         title |-> title, date |-> InstantOf(d)]
    /\ UNCHANGED <<users, nextEventId, tokens, now, inflight>>

DeleteEvent ==
    /\ \E id \in 1..MaxEvents :
         LET r == delete_event(events, id)
         IN  /\ events' = r.events
             /\ last' = [op |-> "delete_event", err |-> r.err, id |-> id,
                         at |-> now, pre |-> Before(id),
                         title |-> NoTitle, date |-> NoInstant]
    /\ UNCHANGED <<users, nextEventId, tokens, now, inflight>>

CompleteEvent ==
    /\ \E id \in 1..MaxEvents :
         LET r == complete_event(events, id, now)
         IN  /\ events' = r.events
             /\ last' = [op |-> "complete_event", err |-> r.err, id |-> id,
                         at |-> now, pre |-> Before(id),
                         title |-> NoTitle, date |-> NoInstant]
    /\ UNCHANGED <<users, nextEventId, tokens, now, inflight>>

CancelEvent ==
    /\ \E id \in 1..MaxEvents :
         LET r == cancel_event(events, id, now)
         IN  /\ events' = r.events
             /\ last' = [op |-> "cancel_event", err |-> r.err, id |-> id,
                         at |-> now, pre |-> Before(id),
                         title |-> NoTitle, date |-> NoInstant]
    /\ UNCHANGED <<users, nextEventId, tokens, now, inflight>>

\* the clock advances between requests
Tick ==
    /\ now < MaxClock
    /\ now' = now + 1
    /\ UNCHANGED <<users, events, nextEventId, tokens, last, inflight>>

NextEv ==
    \/ CreateEvent
    \/ UpdateEvent
    \/ DeleteEvent
    \/ CompleteEvent
    \/ CancelEvent
    \/ Tick

SpecEv == Init /\ [][NextEv]_vars

\* ------------------------------------------------------------------------
\* Auth endpoints: the response (status and error message), the table after
\* the request and the tokens handed out
\* ------------------------------------------------------------------------
\* ValueError is answered 400 by these endpoints, any other exception 500
Status400(err) == IF err \in {ERR_INTEGRITY, ERR_MULTIPLE_ROWS} THEN 500 ELSE 400

\* ValueError is answered 401 by sign-in and refresh, any other exception 500
Status401(err) == IF err \in {ERR_INTEGRITY, ERR_MULTIPLE_ROWS} THEN 500 ELSE 401

\* POST /auth/signup
sign_up_endpoint(us, req, salt, t) ==
    IF ~SignUpRequestValid(req)
    THEN [status |-> 422, err |-> ERR_REQUEST_VALIDATION, users |-> us,
          access |-> NoToken, refresh |-> NoToken]
    ELSE LET r == sign_up(us, to_sign_up_command(req), salt)
         IN  IF r.err # OK
             THEN [status |-> Status400(r.err), err |-> r.err, users |-> r.users,
                   access |-> NoToken, refresh |-> NoToken]
             ELSE LET u == r.users[Len(r.users)]
                  IN  [status |-> 201, err |-> OK, users |-> r.users,
                       access |-> create_access_token(u.id, u.username, u.email, t),
                       refresh |-> create_refresh_token(u.id, t)]

\* POST /auth/signin
sign_in_endpoint(us, req, t) ==
    LET r == sign_in(us, req)
    IN  IF r.err # OK
        THEN [status |-> Status401(r.err), err |-> r.err, users |-> us,
              access |-> NoToken, refresh |-> NoToken]
        ELSE [status |-> 200, err |-> OK, users |-> us,
              access |-> create_access_token(r.user_id, us[r.user_id].username,
                                             us[r.user_id].email, t),
              refresh |-> create_refresh_token(r.user_id, t)]

\* POST /auth/refresh
refresh_endpoint(us, tok, t) ==
    LET r == refresh_access_token(us, tok, t)
    IN  [status |-> IF r.err = OK THEN 200 ELSE Status401(r.err), err |-> r.err,
         users |-> us, access |-> r.access, refresh |-> NoToken]

\* POST /auth/change-password
change_password_endpoint(us, tok, req, salt, t) ==
    LET a == get_current_active_user(us, tok, t)
    IN  IF a.status # 200
        THEN [status |-> a.status, err |-> a.err, users |-> us,
              access |-> NoToken, refresh |-> NoToken]
        ELSE IF ~ChangePasswordRequestValid(req)
        THEN [status |-> 422, err |-> ERR_REQUEST_VALIDATION, users |-> us,
              access |-> NoToken, refresh |-> NoToken]
        ELSE LET r == change_password(us,
                        [user_id |-> a.user.id, old_password |-> req.old_password,
                         new_password |-> req.new_password], salt)
             IN  [status |-> IF r.err = OK THEN 200 ELSE Status400(r.err),
                  err |-> r.err, users |-> r.users,
                  access |-> NoToken, refresh |-> NoToken]

\* PUT /auth/profile
update_profile_endpoint(us, tok, req, t) ==
    LET a == get_current_active_user(us, tok, t)
    IN  IF a.status # 200
        THEN [status |-> a.status, err |-> a.err, users |-> us,
              access |-> NoToken, refresh |-> NoToken]
        ELSE IF ~UpdateProfileRequestValid(req)
        THEN [status |-> 422, err |-> ERR_REQUEST_VALIDATION, users |-> us,
              access |-> NoToken, refresh |-> NoToken]
        ELSE LET r == update_profile(us, to_update_profile_command(a.user.id, req))
             IN  [status |-> IF r.err = OK THEN 200 ELSE Status400(r.err),
                  err |-> r.err, users |-> r.users,
                  access |-> NoToken, refresh |-> NoToken]

\* DELETE /auth/deactivate
deactivate_endpoint(us, tok, t) ==
    LET a == get_current_user(us, tok, t)
    IN  IF a.status # 200
        THEN [status |-> a.status, err |-> a.err, users |-> us,
              access |-> NoToken, refresh |-> NoToken]
        ELSE LET r == deactivate_user(us, a.user.id)
             IN  [status |-> IF r.err = OK THEN 204 ELSE Status400(r.err),
                  err |-> r.err, users |-> r.users,
                  access |-> NoToken, refresh |-> NoToken]

\* GET /auth/me
me_endpoint(us, tok, t) ==
    LET a == get_current_active_user(us, tok, t)
    IN  [status |-> a.status, err |-> a.err, users |-> us,
         access |-> NoToken, refresh |-> NoToken]

\* ------------------------------------------------------------------------
\* Inputs of the auth endpoints
\* ------------------------------------------------------------------------
MaxTokens == 3

Salts == {"s1", "s2"}

U_abc == <<"a", "b", "c">>

U_ABC == <<"A", "b", "C">>

U_abc_sp == <<"a", "b", "c", " ">>

U_ab == <<"a", "b">>

U_xxx == <<"x", "_", "x">>

U_long == [i \in 1..(USERNAME_MAX_LEN + 1) |-> "a"]

E_a == <<"a", "@", "x">>

E_A_sp == <<" ", "A", "@", "x">>

E_b == <<"b", "@", "x">>

E_noat == <<"a", "x">>

P_one == <<"p", "a", "s", "s", "w", "o", "r", "d">>

P_two == <<"P", "a", "s", "s", "w", "o", "r", "d">>

P_short == <<"p", "a", "s", "s", "w", "o", "r">>

NoName == [some |-> FALSE, v |-> <<>>]

NoEmail == [some |-> FALSE, v |-> <<>>]

SignUpReq(u, e, p, r) ==
    [username |-> u, email |-> e, password |-> p, role |-> r, full_name |-> NoName]

\* sign-up bodies: every username with every email, and the two plain
\* identities with every password and role
AllSignUpRequests ==
    {SignUpReq(u, e, P_one, GENERAL) :
        u \in {U_abc, U_ABC, U_abc_sp, U_ab, U_xxx, U_long},
        e \in {E_a, E_A_sp, E_b, E_noat}}
    \cup {SignUpReq(ue[1], ue[2], p, r) :
            ue \in {<<U_abc, E_a>>, <<U_xxx, E_b>>},
            p \in {P_one, P_short}, r \in {GENERAL, ADMIN, "root"}}

AllSignInRequests ==
    {[username_or_email |-> x, password |-> p] :
        x \in {U_abc, <<" ", "A", "b", "c">>, E_A_sp, U_xxx}, p \in {P_one, P_two}}

AllChangePasswordRequests ==
    {[old_password |-> o, new_password |-> n] :
        o \in {P_one, P_two}, n \in {P_one, P_two, P_short}}

AllUpdateProfileRequests ==
    {[full_name |-> f, email |-> e] :
        f \in {NoName, Some(<<"N">>)},
        e \in {NoEmail, Some(<<>>), Some(E_a), Some(E_A_sp), Some(E_b), Some(E_noat)}}

Garbage == [NoToken EXCEPT !.type = "garbage"]

\* what a client can put in the Authorization header or the refresh body:
\* a token it was given, the same token re-signed without the secret, or junk
Forged(tok) == [tok EXCEPT !.sig = "forged"]

Presentable == tokens \cup {Forged(tok) : tok \in tokens} \cup {Garbage}

\* a protected endpoint is called with a token the client was given, or junk
Bearers == tokens \cup {Garbage}

\* the tokens clients hold after a response: a new token is kept while there
\* is room for it, the access token first; the tokens followed are those
\* issued up to MaxClock
KeepOne(held, tok) ==
    IF /\ tok # NoToken
       /\ tok.issued <= MaxClock
       /\ Cardinality(held \cup {tok}) <= MaxTokens
    THEN held \cup {tok}
    ELSE held

Keep(access, refresh) == KeepOne(KeepOne(tokens, access), refresh)

NoAuthLast ==
    [op |-> "none", status |-> 0, err |-> OK, at |-> 0, pre |-> <<>>,
     access |-> NoToken, refresh |-> NoToken, tok |-> NoToken]

\* the answer to an auth request, with the request and the table before it
AuthLast(op, r, req, tok) ==
    [op |-> op, status |-> r.status, err |-> r.err, at |-> now, pre |-> users,
     access |-> r.access, refresh |-> r.refresh, req |-> req, tok |-> tok]

\* ------------------------------------------------------------------------
\* Auth requests
\* ------------------------------------------------------------------------
SignUp(reqs) ==
    /\ \E req \in reqs, salt \in Salts :
         LET r == sign_up_endpoint(users, req, salt, now)
         IN  /\ users' = r.users
             /\ tokens' = Keep(r.access, r.refresh)
             /\ last' = AuthLast("sign_up", r, req, NoToken)
    /\ UNCHANGED <<events, nextEventId, now, inflight>>

SignIn(reqs) ==
    /\ \E req \in reqs :
         LET r == sign_in_endpoint(users, req, now)
         IN  /\ users' = r.users
             /\ tokens' = Keep(r.access, r.refresh)
             /\ last' = AuthLast("sign_in", r, req, NoToken)
    /\ UNCHANGED <<events, nextEventId, now, inflight>>

Refresh ==
    /\ \E tok \in Presentable :
         LET r == refresh_endpoint(users, tok, now)
         IN  /\ users' = r.users
             /\ tokens' = Keep(r.access, NoToken)
             /\ last' = AuthLast("refresh", r, NoToken, tok)
    /\ UNCHANGED <<events, nextEventId, now, inflight>>

ChangePassword(reqs) ==
    /\ \E tok \in Bearers, req \in reqs, salt \in Salts :
         LET r == change_password_endpoint(users, tok, req, salt, now)
         IN  /\ users' = r.users
             /\ last' = AuthLast("change_password", r, req, tok)
    /\ UNCHANGED <<events, nextEventId, tokens, now, inflight>>

UpdateProfile(reqs) ==
    /\ \E tok \in Bearers, req \in reqs :
         LET r == update_profile_endpoint(users, tok, req, now)
         IN  /\ users' = r.users
             /\ last' = AuthLast("update_profile", r, req, tok)
    /\ UNCHANGED <<events, nextEventId, tokens, now, inflight>>

Deactivate ==
    /\ \E tok \in Bearers :
         LET r == deactivate_endpoint(users, tok, now)
         IN  /\ users' = r.users
             /\ last' = AuthLast("deactivate", r, NoToken, tok)
    /\ UNCHANGED <<events, nextEventId, tokens, now, inflight>>

Me ==
    /\ \E tok \in Presentable :
         LET r == me_endpoint(users, tok, now)
         IN  last' = AuthLast("me", r, NoToken, tok)
    /\ UNCHANGED <<users, events, nextEventId, tokens, now, inflight>>

\* two plain registrations
PlainSignUps ==
    {SignUpReq(U_abc, E_a, P_one, GENERAL), SignUpReq(U_xxx, E_b, P_two, ADMIN)}

\* sign-up against a table whose rows also change their email
NextSignUp ==
    \/ SignUp(AllSignUpRequests)
    \/ UpdateProfile({[full_name |-> NoName, email |-> Some(e)] : e \in {E_a, E_b}})
    \/ Deactivate

SpecSignUp == Init /\ [][NextSignUp]_vars

\* sign-in against accounts that change password and get deactivated
NextSignIn ==
    \/ SignUp(PlainSignUps)
    \/ SignIn(AllSignInRequests)
    \/ ChangePassword({[old_password |-> o, new_password |-> n] :
                          o \in {P_one, P_two}, n \in {P_one, P_two}})
    \/ Deactivate

SpecSignIn == Init /\ [][NextSignIn]_vars

\* ------------------------------------------------------------------------
\* Tokens over time
\* ------------------------------------------------------------------------
\* the instants at which a held token is about to expire or has just expired
ExpiryInstants ==
    {tok.issued + Lifetime(tok.type) + d : tok \in tokens, d \in {0 - 2, 0 - 1, 0}}

\* time passes until a held token is at the edge of its lifetime
Elapse ==
    /\ \E t \in ExpiryInstants : t > now /\ now' = t
    /\ UNCHANGED <<users, events, nextEventId, tokens, last, inflight>>

\* one account, its password and its email changing, its tokens ageing
NextTok ==
    \/ SignUp({SignUpReq(U_abc, E_a, P_one, GENERAL)})
    \/ SignIn({[username_or_email |-> U_abc, password |-> P_two]})
    \/ Refresh
    \/ Me
    \/ ChangePassword({[old_password |-> P_one, new_password |-> P_two]})
    \/ UpdateProfile({[full_name |-> NoName, email |-> Some(E_b)]})
    \/ Deactivate
    \/ Tick
    \/ Elapse

SpecTok == Init /\ [][NextTok]_vars

\* ------------------------------------------------------------------------
\* Requests in flight: one step per await of the command service
\* ------------------------------------------------------------------------
MaxInflight == 2

NoFlight ==
    [rid |-> 0, op |-> "none", pc |-> "done", req |-> NoToken, tok |-> NoToken,
     cmd |-> NoToken, loaded |-> NoUser, user |-> NoUser]

\* the smallest request number not in use
FreeRid == CHOOSE n \in 1..(MaxInflight + 1) : \A f \in inflight : f.rid # n

\* a response without tokens
Answer(status, err) ==
    [status |-> status, err |-> err, access |-> NoToken, refresh |-> NoToken]

\* the request f is answered with r and leaves
Finish(f, op, r) ==
    /\ inflight' = inflight \ {f}
    /\ tokens' = Keep(r.access, r.refresh)
    /\ last' = AuthLast(op, r, f.req, f.tok)

\* POST /auth/signup up to the first await of sign_up
SignUpStart(reqs) ==
    /\ Cardinality(inflight) < MaxInflight
    /\ \E req \in reqs :
         /\ SignUpRequestValid(req)
         /\ inflight' = inflight \cup
              {[NoFlight EXCEPT !.rid = FreeRid, !.op = "sign_up",
                                !.pc = "exists_by_username", !.req = req,
                                !.cmd = to_sign_up_command(req)]}
    /\ UNCHANGED <<users, events, nextEventId, tokens, now, last>>

\* sign_up: await exists_by_username
SignUpCheckUsername ==
    /\ \E f \in inflight :
         /\ f.op = "sign_up" /\ f.pc = "exists_by_username"
         /\ IF exists_by_username(users, f.cmd.username)
            THEN Finish(f, "sign_up", Answer(400, ERR_USERNAME_TAKEN))
            ELSE /\ inflight' = (inflight \ {f}) \cup {[f EXCEPT !.pc = "exists_by_email"]}
                 /\ UNCHANGED <<tokens, last>>
    /\ UNCHANGED <<users, events, nextEventId, now>>

\* sign_up: await exists_by_email, then the checks up to the save
SignUpCheckEmail ==
    /\ \E f \in inflight :
         /\ f.op = "sign_up" /\ f.pc = "exists_by_email"
         /\ IF exists_by_email(users, f.cmd.email)
            THEN Finish(f, "sign_up", Answer(400, ERR_EMAIL_REGISTERED))
            ELSE IF ~Contains(f.cmd.email, "@")
            THEN Finish(f, "sign_up", Answer(400, ERR_EMAIL_FORMAT))
            ELSE IF \/ Len(f.cmd.username) < USERNAME_MIN_LEN
                    \/ Len(f.cmd.username) > USERNAME_MAX_LEN
            THEN Finish(f, "sign_up", Answer(400, ERR_USERNAME_LENGTH))
            ELSE IF hash_password(f.cmd.password, "") .err # OK
            THEN Finish(f, "sign_up", Answer(400, ERR_PASSWORD_SHORT))
            ELSE /\ inflight' = (inflight \ {f}) \cup {[f EXCEPT !.pc = "save"]}
                 /\ UNCHANGED <<tokens, last>>
    /\ UNCHANGED <<users, events, nextEventId, now>>

\* sign_up: await save, then the tokens
SignUpSave(salts) ==
    /\ \E f \in inflight, salt \in salts :
         /\ f.op = "sign_up" /\ f.pc = "save"
         /\ LET r == InsertUser(users, new_user(f.cmd, hash_password(f.cmd.password, salt).hash))
                u == r.users[Len(r.users)]
            IN  /\ users' = r.users
                /\ IF r.err # OK
                   THEN Finish(f, "sign_up", Answer(Status400(r.err), r.err))
                   ELSE Finish(f, "sign_up",
                               [status |-> 201, err |-> OK,
                                access |-> create_access_token(u.id, u.username, u.email, now),
                                refresh |-> create_refresh_token(u.id, now)])
    /\ UNCHANGED <<events, nextEventId, now>>

\* PUT /auth/profile, called with an access token, up to the first await
\* after find_by_id
UpdateProfileStart(reqs) ==
    /\ Cardinality(inflight) < MaxInflight
    /\ \E tok \in {k \in tokens : k.type = "access"}, req \in reqs :
         LET a == get_current_active_user(users, tok, now)
         IN  /\ a.status = 200
             /\ UpdateProfileRequestValid(req)
             /\ inflight' = inflight \cup
                  {[NoFlight EXCEPT !.rid = FreeRid, !.op = "update_profile",
                                    !.pc = "exists_by_email", !.req = req, !.tok = tok,
                                    !.cmd = to_update_profile_command(a.user.id, req),
                                    !.loaded = a.user, !.user = a.user]}
    /\ UNCHANGED <<users, events, nextEventId, tokens, now, last>>

\* update_profile: await exists_by_email (when the email changes), then
\* User.update_profile on the loaded row
UpdateProfileCheckEmail ==
    /\ \E f \in inflight :
         /\ f.op = "update_profile" /\ f.pc = "exists_by_email"
         /\ IF /\ f.cmd.email.some /\ f.cmd.email.v # <<>>
               /\ f.cmd.email.v # f.loaded.email
               /\ exists_by_email(users, f.cmd.email.v)
            THEN Finish(f, "update_profile", Answer(400, ERR_EMAIL_REGISTERED))
            ELSE LET r == update_profile_agg(f.loaded, f.cmd.full_name, f.cmd.email)
                 IN  IF r.err # OK
                     THEN Finish(f, "update_profile", Answer(400, r.err))
                     ELSE /\ inflight' = (inflight \ {f}) \cup
                                {[f EXCEPT !.pc = "save", !.user = r.user]}
                          /\ UNCHANGED <<tokens, last>>
    /\ UNCHANGED <<users, events, nextEventId, now>>

\* the UPDATE the session flushes: the columns whose value differs from the
\* value loaded
Flushed(row, loaded, changed) ==
    [row EXCEPT !.full_name = IF changed.full_name # loaded.full_name
                              THEN changed.full_name ELSE @,
                !.email = IF changed.email # loaded.email THEN changed.email ELSE @]

\* update_profile: await save
UpdateProfileSave ==
    /\ \E f \in inflight :
         /\ f.op = "update_profile" /\ f.pc = "save"
         /\ LET r == SaveUser(users, Flushed(users[f.user.id], f.loaded, f.user))
            IN  /\ users' = r.users
                /\ Finish(f, "update_profile",
                          Answer(IF r.err = OK THEN 200 ELSE Status400(r.err), r.err))
    /\ UNCHANGED <<events, nextEventId, now>>

RaceSignUps ==
    {SignUpReq(U_abc, E_a, P_one, GENERAL), SignUpReq(U_ABC, E_b, P_one, GENERAL),
     SignUpReq(U_xxx, E_b, P_one, GENERAL)}

RaceUpdates == {[full_name |-> NoName, email |-> Some(e)] : e \in {E_a, E_b}}

NextRace ==
    \/ SignUpStart(RaceSignUps)
    \/ SignUpCheckUsername
    \/ SignUpCheckEmail
    \/ SignUpSave({"s1"})
    \/ UpdateProfileStart(RaceUpdates)
    \/ UpdateProfileCheckEmail
    \/ UpdateProfileSave

SpecRace == Init /\ [][NextRace]_vars

\* ------------------------------------------------------------------------
\* Reminder endpoints: the response, the table after the request and the
\* rows returned
\* ------------------------------------------------------------------------
ERR_GENERAL_ONLY == "This action is only available for general users"

ERR_NOT_OWNER == "You don't have permission"

TITLE_MAX_LEN == 200

\* get_current_general_user
get_current_general_user(us, tok, t) ==
    LET r == get_current_active_user(us, tok, t)
    IN  IF r.status # 200 THEN r
        ELSE IF ~is_general_user(r.user)
        THEN [status |-> 403, err |-> ERR_GENERAL_ONLY, user |-> NoUser]
        ELSE r

EvAnswer(status, err, evs, rows) ==
    [status |-> status, err |-> err, events |-> evs, rows |-> rows]

\* CreateEventRequest: user_id and title not empty, title_not_empty; FALSE is
\* a 422
CreateEventRequestValid(req) ==
    /\ req.user_id # ""
    /\ Len(req.title) >= 1 /\ Len(req.title) <= TITLE_MAX_LEN
    /\ Strip(req.title) # <<>>

\* UpdateEventRequest: a title that is given has 1 to 200 characters
UpdateEventRequestValid(req) ==
    req.title.some => (Len(req.title.v) >= 1 /\ Len(req.title.v) <= TITLE_MAX_LEN)

\* POST /events/: the user_id of the body is overwritten with the caller's
create_event_endpoint(us, evs, nid, tok, req, t) ==
    LET a == get_current_general_user(us, tok, t)
    IN  IF a.status # 200 THEN EvAnswer(a.status, a.err, evs, {})
        ELSE IF ~CreateEventRequestValid(req)
        THEN EvAnswer(422, ERR_REQUEST_VALIDATION, evs, {})
        ELSE LET r == create_event(evs, nid, IdStr(a.user.id), Strip(req.title),
                                   req.event_date, t)
             IN  IF r.err # OK THEN EvAnswer(400, r.err, evs, {})
                 ELSE EvAnswer(201, OK, r.events, {r.events[r.id]})

ExistsCheck(evs, id, u) ==
    IF ~EventExists(evs, id) THEN [status |-> 404, err |-> ERR_EVENT_NOT_FOUND]
    ELSE [status |-> 200, err |-> OK]

\* the ownership check the write endpoints make before they call the service
OwnerCheck(evs, id, u) ==
    IF ~EventExists(evs, id) THEN [status |-> 404, err |-> ERR_EVENT_NOT_FOUND]
    ELSE IF evs[id].user_id # IdStr(u.id) THEN [status |-> 403, err |-> ERR_NOT_OWNER]
    ELSE [status |-> 200, err |-> OK]

\* PUT /events/{event_id}: a ValueError of the service is answered 400
update_event_endpoint(us, evs, tok, id, req, t) ==
    LET a == get_current_general_user(us, tok, t)
    IN  IF a.status # 200 THEN EvAnswer(a.status, a.err, evs, {})
        ELSE IF ~UpdateEventRequestValid(req)
        THEN EvAnswer(422, ERR_REQUEST_VALIDATION, evs, {})
        ELSE LET c == OwnerCheck(evs, id, a.user)
                 r == update_event(evs, id, req.title, req.event_date, t)
             IN  IF c.status # 200 THEN EvAnswer(c.status, c.err, evs, {})
                 ELSE IF r.err # OK THEN EvAnswer(400, r.err, evs, {})
                 ELSE EvAnswer(200, OK, r.events, {r.events[id]})

\* DELETE /events/{event_id}: a ValueError of the service is answered 404
delete_event_endpoint(us, evs, tok, id, t) ==
    LET a == get_current_general_user(us, tok, t)
    IN  IF a.status # 200 THEN EvAnswer(a.status, a.err, evs, {})
        ELSE LET c == OwnerCheck(evs, id, a.user)
                 r == delete_event(evs, id)
             IN  IF c.status # 200 THEN EvAnswer(c.status, c.err, evs, {})
                 ELSE IF r.err # OK THEN EvAnswer(404, r.err, evs, {})
                 ELSE EvAnswer(204, OK, r.events, {})

\* a ValueError whose message has "not found" is answered 404, another 400
StatusOfTransition(err) == IF err = ERR_EVENT_NOT_FOUND THEN 404 ELSE 400

\* POST /events/{event_id}/complete
complete_event_endpoint(us, evs, tok, id, t) ==
    LET a == get_current_general_user(us, tok, t)
    IN  IF a.status # 200 THEN EvAnswer(a.status, a.err, evs, {})
        ELSE LET c == OwnerCheck(evs, id, a.user)
                 r == complete_event(evs, id, t)
             IN  IF c.status # 200 THEN EvAnswer(c.status, c.err, evs, {})
                 ELSE IF r.err # OK THEN EvAnswer(StatusOfTransition(r.err), r.err, evs, {})
                 ELSE EvAnswer(200, OK, r.events, {r.events[id]})

\* POST /events/{event_id}/cancel
cancel_event_endpoint(us, evs, tok, id, t) ==
    LET a == get_current_general_user(us, tok, t)
    IN  IF a.status # 200 THEN EvAnswer(a.status, a.err, evs, {})
        ELSE LET c == OwnerCheck(evs, id, a.user)
                 r == cancel_event(evs, id, t)
             IN  IF c.status # 200 THEN EvAnswer(c.status, c.err, evs, {})
                 ELSE IF r.err # OK THEN EvAnswer(StatusOfTransition(r.err), r.err, evs, {})
                 ELSE EvAnswer(200, OK, r.events, {r.events[id]})

\* EventRepositoryImpl.find_by_user / find_all: the rows returned
find_by_user(evs, uid) == {evs[i] : i \in {j \in DOMAIN evs : evs[j].user_id = uid}}

find_all(evs) == {evs[i] : i \in DOMAIN evs}

\* the calendar day (UTC) of an instant
DayOf(t) == t \div (24 * 60 * 60 * TicksPerSec)

\* EventRepositoryImpl.find_by_user_and_date / find_by_date
find_by_user_and_date(evs, uid, day) ==
    {e \in find_by_user(evs, uid) : DayOf(e.event_date) = day}

find_by_date(evs, day) == {e \in find_all(evs) : DayOf(e.event_date) = day}

\* GET /events/
get_all_events_endpoint(us, evs, tok, t) ==
    LET a == get_current_active_user(us, tok, t)
    IN  IF a.status # 200 THEN EvAnswer(a.status, a.err, evs, {})
        ELSE IF is_admin(a.user) THEN EvAnswer(200, OK, evs, find_all(evs))
        ELSE EvAnswer(200, OK, evs, find_by_user(evs, IdStr(a.user.id)))

\* GET /events/{event_id}
get_event_endpoint(us, evs, tok, id, t) ==
    LET a == get_current_active_user(us, tok, t)
    IN  IF a.status # 200 THEN EvAnswer(a.status, a.err, evs, {})
        ELSE IF ~EventExists(evs, id)
        THEN EvAnswer(404, ERR_EVENT_NOT_FOUND, evs, {})
        ELSE IF ~is_admin(a.user) /\ evs[id].user_id # IdStr(a.user.id)
        THEN EvAnswer(403, ERR_NOT_OWNER, evs, {})
        ELSE EvAnswer(200, OK, evs, {evs[id]})

\* GET /events/date/{target_date}
get_events_by_date_endpoint(us, evs, tok, day, t) ==
    LET a == get_current_active_user(us, tok, t)
    IN  IF a.status # 200 THEN EvAnswer(a.status, a.err, evs, {})
        ELSE IF is_admin(a.user) THEN EvAnswer(200, OK, evs, find_by_date(evs, day))
        ELSE EvAnswer(200, OK, evs,
                      find_by_user_and_date(evs, IdStr(a.user.id), day))

\* GET /events/upcoming: the route /{event_id} is declared before /upcoming
\* and matches the path, and "upcoming" is not an integer event_id
upcoming_route(us, evs, tok, t) ==
    LET a == get_current_active_user(us, tok, t)
    IN  IF a.status # 200 THEN EvAnswer(a.status, a.err, evs, {})
        ELSE EvAnswer(422, ERR_REQUEST_VALIDATION, evs, {})

\* ------------------------------------------------------------------------
\* Reminder requests through the API
\* ------------------------------------------------------------------------
MaxApiEvents == 2

\* dates around the current instant, timezone-aware and naive
DatesNear(t) ==
    {[t |-> d, tz |-> "utc"] : d \in {t - 1, t, t + 1}} \cup {[t |-> t, tz |-> "naive"]}

CreateReq(uid, title, d) == [user_id |-> uid, title |-> title, event_date |-> d]

UpdateReq(title, d) == [title |-> title, event_date |-> d]

NoReq == UpdateReq(NoTitle, NoDate)

\* the answer to a reminder request, with the request and the tables before
EvLast(op, r, tok, id, req) ==
    [op |-> op, status |-> r.status, err |-> r.err, at |-> now, pre |-> users,
     pre_events |-> events, tok |-> tok, id |-> id, req |-> req, rows |-> r.rows]

ApiCreate(reqs) ==
    /\ nextEventId <= MaxApiEvents
    /\ \E tok \in Bearers, req \in reqs :
         LET r == create_event_endpoint(users, events, nextEventId, tok, req, now)
         IN  /\ events' = r.events
             /\ nextEventId' = IF r.status = 201 THEN nextEventId + 1 ELSE nextEventId
             /\ last' = EvLast("create_event", r, tok, 0, req)
    /\ UNCHANGED <<users, tokens, now, inflight>>

ApiUpdate(reqs) ==
    /\ \E tok \in Bearers, id \in 1..MaxApiEvents, req \in reqs :
         LET r == update_event_endpoint(users, events, tok, id, req, now)
         IN  /\ events' = r.events
             /\ last' = EvLast("update_event", r, tok, id, req)
    /\ UNCHANGED <<users, nextEventId, tokens, now, inflight>>

ApiDelete ==
    /\ \E tok \in Bearers, id \in 1..MaxApiEvents :
         LET r == delete_event_endpoint(users, events, tok, id, now)
         IN  /\ events' = r.events
             /\ last' = EvLast("delete_event", r, tok, id, NoReq)
    /\ UNCHANGED <<users, nextEventId, tokens, now, inflight>>

ApiComplete ==
    /\ \E tok \in Bearers, id \in 1..MaxApiEvents :
         LET r == complete_event_endpoint(users, events, tok, id, now)
         IN  /\ events' = r.events
             /\ last' = EvLast("complete_event", r, tok, id, NoReq)
    /\ UNCHANGED <<users, nextEventId, tokens, now, inflight>>

ApiCancel ==
    /\ \E tok \in Bearers, id \in 1..MaxApiEvents :
         LET r == cancel_event_endpoint(users, events, tok, id, now)
         IN  /\ events' = r.events
             /\ last' = EvLast("cancel_event", r, tok, id, NoReq)
    /\ UNCHANGED <<users, nextEventId, tokens, now, inflight>>

ApiGetAll ==
    /\ \E tok \in Bearers :
         last' = EvLast("get_all_events",
                        get_all_events_endpoint(users, events, tok, now), tok, 0, NoReq)
    /\ UNCHANGED <<users, events, nextEventId, tokens, now, inflight>>

ApiGet ==
    /\ \E tok \in Bearers, id \in 1..MaxApiEvents :
         last' = EvLast("get_event",
                        get_event_endpoint(users, events, tok, id, now), tok, id, NoReq)
    /\ UNCHANGED <<users, events, nextEventId, tokens, now, inflight>>

\* the day asked for is today or yesterday
ApiGetByDate ==
    /\ \E tok \in Bearers, day \in {DayOf(now) - 1, DayOf(now)} :
         last' = EvLast("get_events_by_date",
                        get_events_by_date_endpoint(users, events, tok, day, now),
                        tok, day, NoReq)
    /\ UNCHANGED <<users, events, nextEventId, tokens, now, inflight>>

ApiUpcoming ==
    /\ \E tok \in Bearers :
         last' = EvLast("get_upcoming_events",
                        upcoming_route(users, events, tok, now), tok, 0, NoReq)
    /\ UNCHANGED <<users, events, nextEventId, tokens, now, inflight>>

\* the database after one registration, the client holding its access token
OneAccount ==
    LET a == sign_up_endpoint(<<>>, SignUpReq(U_abc, E_a, P_one, GENERAL), "s1", 0)
    IN  [users |-> a.users, tokens |-> {a.access}]

InitAccount ==
    /\ users = OneAccount.users
    /\ events = <<>>
    /\ nextEventId = 1
    /\ tokens = OneAccount.tokens
    /\ now = 0
    /\ last = NoLast
    /\ inflight = {}

\* every bearer-protected endpoint, called by an account that may be
\* deactivated at any point
NextGuard ==
    \/ Deactivate
    \/ ChangePassword({[old_password |-> P_one, new_password |-> P_two]})
    \/ UpdateProfile({[full_name |-> Some(<<"N">>), email |-> NoEmail]})
    \/ Me
    \/ ApiCreate({CreateReq("1", TitleRent, [t |-> 0, tz |-> "utc"])})
    \/ ApiUpdate({UpdateReq(Some(<<"c">>), NoDate)})
    \/ ApiDelete
    \/ ApiComplete
    \/ ApiCancel
    \/ ApiGetAll
    \/ ApiGet
    \/ ApiGetByDate
    \/ ApiUpcoming

SpecGuard == InitAccount /\ [][NextGuard]_vars

\* two passwords longer than bcrypt reads, alike in the part it reads
P_long_a == [i \in 1..(BCRYPT_MAX_BYTES + 1) |-> IF i <= BCRYPT_MAX_BYTES THEN "x" ELSE "a"]

P_long_b == [i \in 1..(BCRYPT_MAX_BYTES + 1) |-> IF i <= BCRYPT_MAX_BYTES THEN "x" ELSE "b"]

PasswordsTried == {P_one, P_two, P_short, P_long_a, P_long_b}

\* one account changing its password and signing in with old and new ones
NextPwd ==
    \/ ChangePassword({[old_password |-> o, new_password |-> n] :
                          o \in PasswordsTried, n \in PasswordsTried})
    \/ SignIn({[username_or_email |-> U_abc, password |-> p] : p \in PasswordsTried})

SpecPwd == InitAccount /\ [][NextPwd]_vars

\* the database after two registrations, each client holding its access token
TwoAccounts ==
    LET a == sign_up_endpoint(<<>>, SignUpReq(U_abc, E_a, P_one, GENERAL), "s1", 0)
        b == sign_up_endpoint(a.users, SignUpReq(U_xxx, E_b, P_two, GENERAL), "s1", 0)
    IN  [users |-> b.users, tokens |-> {a.access, b.access}]

InitAccounts ==
    /\ users = TwoAccounts.users
    /\ events = <<>>
    /\ nextEventId = 1
    /\ tokens = TwoAccounts.tokens
    /\ now = 0
    /\ last = NoLast
    /\ inflight = {}

TitlePadded == <<" ", "A", "b", " ">>

TitleTooLong == [i \in 1..(TITLE_MAX_LEN + 1) |-> "t"]

\* creation bodies: any user_id, titles around the limits, dates around now
CreateBodies ==
    {CreateReq(uid, title, d) :
        uid \in {"", "1", "2"},
        title \in {TitleRent, TitlePadded, TitleBlank, <<>>, TitleTooLong},
        d \in DatesNear(now)}

\* two accounts creating reminders and listing them
NextCreate ==
    \/ ApiCreate(CreateBodies)
    \/ ApiGetAll

SpecCreate == InitAccounts /\ [][NextCreate]_vars

\* update bodies: a new title and an empty one
UpdateBodies == {UpdateReq(Some(<<"c">>), NoDate), UpdateReq(Some(<<>>), NoDate)}

\* two accounts writing to their own and to each other's reminders
NextOwn ==
    \/ ApiCreate({CreateReq("1", TitleRent, [t |-> 0, tz |-> "utc"])})
    \/ ApiUpdate(UpdateBodies)
    \/ ApiDelete
    \/ ApiComplete
    \/ ApiCancel

SpecOwn == InitAccounts /\ [][NextOwn]_vars

\* the sign-up bodies of a general user and of an administrator
RoleBodies ==
    <<SignUpReq(U_abc, E_a, P_one, GENERAL), SignUpReq(U_xxx, E_b, P_two, ADMIN)>>

\* the database after these two registrations, each client holding its
\* access token
RoleAccounts ==
    LET a == sign_up_endpoint(<<>>, RoleBodies[1], "s1", 0)
        b == sign_up_endpoint(a.users, RoleBodies[2], "s1", 0)
    IN  [users |-> b.users, tokens |-> {a.access, b.access}]

InitRoles ==
    /\ users = RoleAccounts.users
    /\ events = <<>>
    /\ nextEventId = 1
    /\ tokens = RoleAccounts.tokens
    /\ now = 0
    /\ last = NoLast
    /\ inflight = {}

\* the two accounts creating, completing and reading reminders
NextRead ==
    \/ ApiCreate({CreateReq("1", TitleRent, [t |-> 0, tz |-> "utc"])})
    \/ ApiComplete
    \/ ApiGetAll
    \/ ApiGet
    \/ ApiGetByDate
    \/ ApiUpcoming

SpecRead == InitRoles /\ [][NextRead]_vars

\* one account creating and deleting reminders and then asking for them
NextDel ==
    \/ ApiCreate({CreateReq("1", TitleRent, [t |-> 0, tz |-> "utc"])})
    \/ ApiDelete
    \/ ApiUpdate(UpdateBodies)
    \/ ApiComplete
    \/ ApiCancel
    \/ ApiGet
    \/ ApiGetAll
    \/ ApiGetByDate

SpecDel == InitAccount /\ [][NextDel]_vars

E_c == <<"c", "@", "x">>

\* profile bodies: with and without a name, with emails that are absent,
\* empty, malformed, free, taken, or the caller's own
ProfileBodies ==
    {[full_name |-> f, email |-> e] :
        f \in {NoName, Some(<<"N">>)},
        e \in {NoEmail, Some(<<>>), Some(E_a), Some(E_A_sp), Some(E_b), Some(E_c),
               Some(E_noat)}}

\* two accounts editing their profiles
NextProfile ==
    \/ UpdateProfile(ProfileBodies)
    \/ Me

SpecProfile == InitAccounts /\ [][NextProfile]_vars

\* DELETE /auth/deactivate up to the first await of deactivate_user: the
\* bearer check has loaded the user into the session of the request
DeactivateStart ==
    /\ Cardinality(inflight) < MaxInflight
    /\ \E tok \in Bearers :
         LET a == get_current_user(users, tok, now)
         IN  IF a.status # 200
             THEN /\ last' = AuthLast("deactivate", Answer(a.status, a.err), NoToken, tok)
                  /\ UNCHANGED inflight
             ELSE /\ inflight' = inflight \cup
                       {[NoFlight EXCEPT !.rid = FreeRid, !.op = "deactivate",
                                         !.pc = "find_by_id", !.tok = tok,
                                         !.loaded = a.user, !.user = a.user]}
                  /\ UNCHANGED last
    /\ UNCHANGED <<users, events, nextEventId, tokens, now>>

\* deactivate_user: find_by_id returns the object the session already holds,
\* with the attributes it was loaded with; User.deactivate and the save
\* write is_active
DeactivateRun ==
    /\ \E f \in inflight :
         /\ f.op = "deactivate" /\ f.pc = "find_by_id"
         /\ LET r == deactivate(f.loaded)
            IN  IF r.err # OK
                THEN /\ Finish(f, "deactivate", Answer(Status400(r.err), r.err))
                     /\ UNCHANGED users
                ELSE /\ users' = [users EXCEPT ![f.loaded.id].is_active = FALSE]
                     /\ Finish(f, "deactivate", Answer(204, OK))
    /\ UNCHANGED <<events, nextEventId, now>>

\* two accounts deactivating themselves, requests overlapping
NextDeact ==
    \/ DeactivateStart
    \/ DeactivateRun
    \/ Me

SpecDeact == InitAccounts /\ [][NextDeact]_vars

\* two accounts using every auth endpoint, signing up again with the names
\* they have, before and after they are deactivated
NextIrrev ==
    \/ SignUp({SignUpReq(U_abc, E_a, P_one, GENERAL), SignUpReq(U_xxx, E_b, P_two, GENERAL)})
    \/ SignIn({[username_or_email |-> U_abc, password |-> P_one],
               [username_or_email |-> E_b, password |-> P_two]})
    \/ Refresh
    \/ Me
    \/ ChangePassword({[old_password |-> P_one, new_password |-> P_one]})
    \/ UpdateProfile({[full_name |-> Some(<<"N">>), email |-> NoEmail]})
    \/ Deactivate

SpecIrrev == InitAccounts /\ [][NextIrrev]_vars

\* ------------------------------------------------------------------------
\* Reminder writes in flight: one step per await of the handler. A request
\* has one database session (get_db_session); the controller's find_by_id
\* loads the row into it, and the service's find_by_id returns that same
\* object with the attributes it was loaded with
\* ------------------------------------------------------------------------
\* UPDATE ... WHERE id = ... matching no row (not a ValueError)
ERR_STALE_DATA == "StaleDataError"

NoWrite ==
    [rid |-> 0, op |-> "none", pc |-> "done", tok |-> NoToken, id |-> 0,
     req |-> NoReq, loaded |-> NoEvent, dirty |-> NoEvent]

\* the database after one registration and one reminder of that account
OneReminder ==
    LET e == create_event_endpoint(OneAccount.users, <<>>, 1, CHOOSE k \in OneAccount.tokens : TRUE,
                                   CreateReq("1", TitleRent, [t |-> 0, tz |-> "utc"]), 0)
    IN  [users |-> OneAccount.users, tokens |-> OneAccount.tokens, events |-> e.events]

InitReminder ==
    /\ users = OneReminder.users
    /\ events = OneReminder.events
    /\ nextEventId = 2
    /\ tokens = OneReminder.tokens
    /\ now = 0
    /\ last = NoLast
    /\ inflight = {}

\* the answer to a reminder write, with the row its session had loaded and
\* the step that answered
WriteLast(op, r, tok, id, req, loaded, pc) ==
    [op |-> op, status |-> r.status, err |-> r.err, at |-> now, pre |-> users,
     pre_events |-> events, tok |-> tok, id |-> id, req |-> req, rows |-> r.rows,
     loaded |-> loaded, pc |-> pc]

\* the request f is answered and leaves
WriteFinish(f, status, err, rows) ==
    /\ inflight' = inflight \ {f}
    /\ last' = WriteLast(f.op, EvAnswer(status, err, events, rows), f.tok, f.id, f.req,
                         f.loaded, f.pc)

\* the table as the session of a request sees it: a row that is still
\* stored is the object loaded earlier, a row that is gone is not found
SessionView_fresh(evs, loaded) == evs

\* EventRepositoryImpl.find_by_id on a session that holds the row already
SessionView(evs, loaded) ==
    IF EventExists(evs, loaded.id) THEN [evs EXCEPT ![loaded.id] = loaded] ELSE evs

\* the status the handler gives to a ValueError of the service
StatusOfValueError_all404(op, err) == 404

StatusOfValueError(op, err) ==
    IF op = "update_event" THEN 400
    ELSE IF op = "delete_event" THEN 404
    ELSE StatusOfTransition(err)

Flush_whole_row(row, loaded, dirty) == dirty

\* the UPDATE a flush emits sets the attributes changed on the object
Flush(row, loaded, dirty) ==
    [k \in DOMAIN row |-> IF dirty[k] # loaded[k] THEN dirty[k] ELSE row[k]]

\* a write endpoint up to the call of the service: the dependencies, the
\* body, and the ownership check on the row read now
WriteStart(ops, reqs) ==
    /\ Cardinality(inflight) < MaxInflight
    /\ \E tok \in Bearers, id \in 1..nextEventId, op \in ops, body \in reqs :
         LET req == IF op = "update_event" THEN body ELSE NoReq
             a == get_current_general_user(users, tok, now)
             c == OwnerCheck(events, id, a.user)
             refuse(status, err) ==
                 /\ last' = WriteLast(op, EvAnswer(status, err, events, {}), tok, id, req, NoEvent,
                                     "controller")
                 /\ UNCHANGED inflight
         IN  IF a.status # 200 THEN refuse(a.status, a.err)
             ELSE IF ~UpdateEventRequestValid(req) THEN refuse(422, ERR_REQUEST_VALIDATION)
             ELSE IF c.status # 200 THEN refuse(c.status, c.err)
             ELSE /\ inflight' = inflight \cup
                        {[NoWrite EXCEPT !.rid = FreeRid, !.op = op, !.pc = "service",
                                         !.tok = tok, !.id = id, !.req = req,
                                         !.loaded = events[id]]}
                  /\ UNCHANGED last
    /\ UNCHANGED <<users, events, nextEventId, tokens, now>>

\* the command service up to its save or delete: the lookup and the
\* aggregate's method, on the object of the session
WriteService ==
    /\ \E f \in inflight :
         /\ f.pc = "service"
         /\ LET view == SessionView(events, f.loaded)
                r == CASE f.op = "update_event" ->
                            update_event(view, f.id, f.req.title, f.req.event_date, now)
                       [] f.op = "delete_event" -> delete_event(view, f.id)
                       [] f.op = "complete_event" -> complete_event(view, f.id, now)
                       [] f.op = "cancel_event" -> cancel_event(view, f.id, now)
            IN  IF r.err # OK
                THEN WriteFinish(f, StatusOfValueError(f.op, r.err), r.err, {})
                ELSE /\ inflight' = (inflight \ {f}) \cup
                           {[f EXCEPT !.pc = "commit",
                                      !.dirty = IF f.op = "delete_event" THEN f.loaded
                                                ELSE r.events[f.id]]}
                     /\ UNCHANGED last
    /\ UNCHANGED <<users, events, nextEventId, tokens, now>>

\* EventRepositoryImpl.save / delete: the flush, the commit and the answer
WriteCommit ==
    /\ \E f \in inflight :
         /\ f.pc = "commit"
         /\ IF f.op = "delete_event"
            THEN /\ events' = IF EventExists(events, f.id) THEN RemoveEvent(events, f.id)
                              ELSE events
                 /\ WriteFinish(f, 204, OK, {})
            ELSE IF ~EventExists(events, f.id)
            THEN /\ WriteFinish(f, 500, ERR_STALE_DATA, {})
                 /\ UNCHANGED events
            ELSE LET row == Flush(events[f.id], f.loaded, f.dirty)
                 IN  /\ events' = [events EXCEPT ![f.id] = row]
                     /\ WriteFinish(f, 200, OK, {row})
    /\ UNCHANGED <<users, nextEventId, tokens, now>>

\* one account completing, cancelling and deleting its reminder from
\* concurrent requests
NextWrites ==
    \/ WriteStart({"complete_event", "cancel_event", "delete_event"}, {NoReq})
    \/ WriteService
    \/ WriteCommit

SpecWrites == InitReminder /\ [][NextWrites]_vars

\* one account updating, completing and deleting its reminder from
\* concurrent requests
NextGone ==
    \/ WriteStart({"update_event", "complete_event", "delete_event"},
                  {UpdateReq(Some(<<"c">>), NoDate)})
    \/ WriteService
    \/ WriteCommit

SpecGone == InitReminder /\ [][NextGone]_vars

\* one account updating and completing its reminder from concurrent
\* requests (one of each kind at a time), cancelling it, and changing its
\* own record
NextFrame ==
    \/ WriteStart({"update_event", "complete_event"} \ {f.op : f \in inflight},
                  {UpdateReq(Some(<<"c">>), Some([t |-> 1, tz |-> "utc"]))})
    \/ WriteService
    \/ WriteCommit
    \/ ApiCancel
    \/ ChangePassword({[old_password |-> P_one, new_password |-> P_two]})
    \/ UpdateProfile({[full_name |-> Some(<<"N">>), email |-> Some(E_b)]})
    \/ Deactivate

SpecFrame == InitReminder /\ [][NextFrame]_vars

\* ------------------------------------------------------------------------
\* Properties of the reminder context
\* ------------------------------------------------------------------------
TerminalStatus == {COMPLETED, CANCELLED}

\* the request just answered addressed a stored reminder
LastOnStored(op) == last.op = op /\ last.pre.id # 0

\* C1: complete on a pending reminder succeeds and stores completed, cancel
\* on a pending reminder succeeds and stores cancelled; on a reminder that is
\* no longer pending both fail with the aggregate's error and the stored row
\* is exactly the row before the call.
C1_StatusMachine ==
    /\ LastOnStored("complete_event") =>
          IF last.pre.status = PENDING
          THEN last.err = OK /\ events[last.id].status = COMPLETED
          ELSE last.err = ERR_COMPLETE /\ events[last.id] = last.pre
    /\ LastOnStored("cancel_event") =>
          IF last.pre.status = PENDING
          THEN last.err = OK /\ events[last.id].status = CANCELLED
          ELSE last.err = ERR_CANCEL /\ events[last.id] = last.pre

\* C1 witness: a cancel after a complete was refused, and a complete after a
\* cancel would be the symmetric case
C1_Witness ==
    /\ LastOnStored("cancel_event")
    /\ last.pre.status = COMPLETED
    /\ last.err = ERR_CANCEL

\* C2 as stated: an update_event carrying an event_date on a completed or
\* cancelled reminder fails and leaves event_date as it was.
C2_RescheduleTerminalFails ==
    (LastOnStored("update_event") /\ last.date.some
        /\ last.pre.status \in TerminalStatus)
    => (last.err # OK /\ events[last.id].event_date = last.pre.event_date)

\* what update_event does with its title argument
TitleSkipped(title) == ~title.some \/ title.v = <<>>

TitleRefused(title) == ~TitleSkipped(title) /\ Strip(title.v) = <<>>

\* C2 amended: the status plays no part in a reschedule. On a completed or
\* cancelled reminder an update_event carrying an event_date fails only for
\* a blank title or a date before the current time, leaving the row as it
\* was; otherwise it succeeds, stores the new date and keeps the status.
C2_RescheduleIgnoresStatus ==
    (LastOnStored("update_event") /\ last.date.some
        /\ last.pre.status \in TerminalStatus)
    => /\ last.err =
            (IF TitleRefused(last.title) THEN ERR_TITLE_EMPTY
             ELSE IF last.date.v < last.at THEN ERR_RESCHEDULE_PAST
             ELSE OK)
       /\ last.err # OK => events[last.id] = last.pre
       /\ last.err = OK =>
            /\ events[last.id].event_date = last.date.v
            /\ events[last.id].status = last.pre.status

\* C2 witness: a completed reminder was moved to a later date
C2_Witness ==
    /\ LastOnStored("update_event")
    /\ last.pre.status = COMPLETED
    /\ last.date.some /\ last.date.v > last.at
    /\ last.err = OK
    /\ events[last.id].event_date = last.date.v
    /\ events[last.id].event_date # last.pre.event_date

\* C3: no stored reminder ever has status expired; every stored status is
\* pending, completed or cancelled.
C3_NeverExpired ==
    \A id \in DOMAIN events : events[id].status \in {PENDING, COMPLETED, CANCELLED}

\* C3 witness: a reminder whose date has passed is still pending
C3_Witness ==
    \E id \in DOMAIN events :
        events[id].status = PENDING /\ events[id].event_date < now

\* ------------------------------------------------------------------------
\* Properties of the IAM context
\* ------------------------------------------------------------------------
\* the rows whose username or email is the lowercased, trimmed x
Normalized(us, x) ==
    {i \in UserIds(us) : us[i].username = Strip(Lower(x)) \/ us[i].email = Strip(Lower(x))}

\* the sign-up body names the username or the email of a stored user, up to
\* case and surrounding whitespace, and is acceptable otherwise
DuplicateSignUp(us, req) ==
    /\ \E i \in UserIds(us) :
          \/ us[i].username = Strip(Lower(req.username))
          \/ us[i].email = Strip(Lower(req.email))
    /\ Contains(req.email, "@")
    /\ Len(Strip(req.username)) >= 3 /\ Len(req.username) <= 50
    /\ Len(req.password) >= 8
    /\ req.role \in UserRoleEnum

\* C4: a sign-up whose username or email equals, after lowercasing and
\* trimming, that of an existing user is answered with the conflict error,
\* not with an error of another kind, and creates no user.
C4_DuplicateIsConflict ==
    (last.op = "sign_up" /\ DuplicateSignUp(last.pre, last.req))
        => /\ last.status = 400
           /\ last.err \in {ERR_USERNAME_TAKEN, ERR_EMAIL_REGISTERED}
           /\ users = last.pre

\* C5: under any interleaving of sign-up and update-profile requests no two
\* users share a username, no two share an email, and every role is
\* general_user or admin_user.
C5_UniqueUsers ==
    /\ \A i, j \in UserIds(users) :
          i # j => (users[i].username # users[j].username
                    /\ users[i].email # users[j].email)
    /\ \A i \in UserIds(users) : users[i].role \in {"general_user", "admin_user"}

\* a request that had passed its existence check lost the race at the save
C5_Witness ==
    /\ Len(users) = 2
    /\ last.op \in {"sign_up", "update_profile"}
    /\ last.err = ERR_INTEGRITY

\* C6: after a successful sign-up the stored user has the lowercased, trimmed
\* username and email, is active, and has the role supplied in the request;
\* a sign-up with role admin_user yields a user for which is_admin() holds.
C6_StoredAsSupplied ==
    (last.op = "sign_up" /\ last.status = 201)
        => LET u == users[Len(users)]
           IN  /\ Len(users) = Len(last.pre) + 1
               /\ u.username = Strip(Lower(last.req.username))
               /\ u.email = Strip(Lower(last.req.email))
               /\ u.is_active
               /\ u.role = last.req.role
               /\ (last.req.role = "admin_user" => is_admin(u))

\* C7: sign-in answers 'Invalid credentials' both when nobody matches the
\* identifier and when the password is wrong, also for a deactivated account;
\* it answers 'Account is deactivated' only when the password is right and the
\* account inactive; tokens are issued only when the user exists, the
\* password verifies and the account is active.
C7_SignInErrors ==
    last.op = "sign_in"
        => LET m == Normalized(last.pre, last.req.username_or_email)
               found == m # {}
               u == last.pre[CHOOSE i \in m : TRUE]
               pwok == found /\ u.hashed_password.pw = last.req.password
               issued == last.access # NoToken \/ last.refresh # NoToken
           IN  /\ ~pwok => (last.status = 401 /\ last.err = "Invalid credentials")
               /\ (last.err = "Account is deactivated") <=> (pwok /\ ~u.is_active)
               /\ issued <=> (pwok /\ u.is_active)
               /\ issued => (last.status = 200 /\ last.access.sub = IdStr(u.id)
                             /\ last.refresh.sub = IdStr(u.id))

\* a wrong password on a deactivated account, and the right one
C7_Witness ==
    /\ last.op = "sign_in"
    /\ last.err = ERR_DEACTIVATED
    /\ \E i \in UserIds(users) : ~users[i].is_active
    /\ \E req \in AllSignInRequests :
          /\ req.username_or_email = last.req.username_or_email
          /\ sign_in_endpoint(users, req, now).err = ERR_INVALID_CREDENTIALS

\* the signature is the server's and the expiry lies after the instant t
Unexpired(tok, t) == tok.sig = SIGNED /\ t < tok.exp * TicksPerSec

\* the subject of the token is an active user of the table
SubjectActive(us, tok) ==
    /\ \E n \in 1..Len(IdStrings) : IdStrings[n] = tok.sub
    /\ ParseInt(tok.sub) \in UserIds(us)
    /\ us[ParseInt(tok.sub)].is_active

\* C8: refresh returns a new access token only if the token presented is
\* validly signed and unexpired at the call and its subject exists and is
\* active; otherwise it fails with the auth error and issues no token.
C8_RefreshOnlyWhenLive ==
    last.op = "refresh"
        => LET live == Unexpired(last.tok, last.at) /\ SubjectActive(last.pre, last.tok)
           IN  /\ last.access # NoToken => (live /\ last.status = 200)
               /\ ~live => /\ last.status = 401
                           /\ last.err \in {ERR_REFRESH_INVALID, ERR_REFRESH_USER}
                           /\ last.access = NoToken
               /\ last.refresh = NoToken

\* a refresh token issued before the deactivation is refused after it
C8_Witness ==
    /\ last.op = "refresh"
    /\ last.tok.type = "refresh"
    /\ Unexpired(last.tok, last.at)
    /\ ~users[ParseInt(last.tok.sub)].is_active
    /\ last.status = 401
    /\ last.access = NoToken

\* the token was found valid by the request last answered
Verified == last.err \notin {ERR_INVALID_TOKEN, ERR_REFRESH_INVALID}

\* a request presented a token this server issued
PresentedIssued ==
    /\ last.op \in {"me", "refresh"}
    /\ last.tok.sig = SIGNED
    /\ last.tok.type \in {"access", "refresh"}

\* the lifetime the claim gives each kind of token
ClaimedLifetime(type) ==
    IF type = "access" THEN 30 * 60 * TicksPerSec ELSE 7 * 24 * 60 * 60 * TicksPerSec

\* C9 as claimed: a token issued at t0 passes verify at every t with
\* t0 <= t < t0 + lifetime and fails at every t >= t0 + lifetime.
C9_ExpiryAtIssuePlusLifetime ==
    PresentedIssued
        => (Verified <=> last.at < last.tok.issued + ClaimedLifetime(last.tok.type))

\* C9: a token issued at t0 passes verify at every t with t0 <= t < E and
\* fails at every t >= E, E being t0 + lifetime cut down to a whole second.
C9_ExpiryAtWholeSecond ==
    PresentedIssued
        => (Verified <=>
              last.at < ((last.tok.issued + ClaimedLifetime(last.tok.type))
                            \div TicksPerSec) * TicksPerSec)

\* a token issued within a second is refused before t0 + lifetime
C9_Witness ==
    /\ PresentedIssued
    /\ ~Verified
    /\ last.tok.issued % TicksPerSec # 0
    /\ last.at < last.tok.issued + ClaimedLifetime(last.tok.type)

\* C10: after a change of password or profile every unexpired token of the
\* user is still accepted while the account is active: the bearer-protected
\* endpoints authenticate it and refresh mints an access token from it.
C10_NoRevocation ==
    \A tok \in tokens :
        (Unexpired(tok, now) /\ SubjectActive(users, tok))
            => /\ me_endpoint(users, tok, now).status = 200
               /\ refresh_endpoint(users, tok, now).access # NoToken

\* the password has just been changed, and a token carrying the email the
\* account had before its profile changed is still accepted
C10_Witness ==
    /\ last.op = "change_password" /\ last.status = 200
    /\ \E tok \in tokens :
          /\ tok.type = "access"
          /\ tok.sub = last.tok.sub
          /\ tok.email # users[ParseInt(tok.sub)].email
          /\ me_endpoint(users, tok, now).status = 200
    /\ \E tok \in tokens :
          /\ tok.type = "refresh"
          /\ tok.sub = last.tok.sub
          /\ refresh_endpoint(users, tok, now).access # NoToken

\* the operations behind a bearer token
ReminderOps ==
    {"create_event", "update_event", "delete_event", "complete_event", "cancel_event",
     "get_all_events", "get_event", "get_events_by_date", "get_upcoming_events"}

ProtectedOps == {"change_password", "update_profile", "deactivate", "me"} \cup ReminderOps

\* C11: every bearer-protected endpoint answers 401 when the subject of the
\* token does not exist or is inactive, so once an account is deactivated no
\* request carrying a token of that user is granted access (nothing is
\* changed and nothing is returned).
C11_InactiveSubjectIs401 ==
    (/\ last.op \in ProtectedOps
     /\ ~(Unexpired(last.tok, last.at) /\ SubjectActive(last.pre, last.tok)))
        => /\ last.status = 401
           /\ users = last.pre
           /\ last.op \in ReminderOps => (events = last.pre_events /\ last.rows = {})

\* an unexpired token of a deactivated owner of a reminder is refused
C11_Witness ==
    /\ last.op \in ReminderOps
    /\ last.status = 401
    /\ Unexpired(last.tok, last.at)
    /\ ~users[ParseInt(last.tok.sub)].is_active
    /\ \E i \in DOMAIN events : events[i].user_id = last.tok.sub

\* whether the account signs in with this password
SignsIn(us, name, p) == sign_in(us, [username_or_email |-> name, password |-> p]).err = OK

\* a change-password request that reached the command
PasswordCommand == last.op = "change_password" /\ last.status \notin {401, 403}

PasswordCaller == last.pre[ParseInt(last.tok.sub)]

\* a failed change leaves the hash, and with it every sign-in, as it was
C12_FailureKeepsHash ==
    (/\ PasswordCommand
     /\ \/ ~verify_password(PasswordCaller, last.req.old_password)
        \/ Len(last.req.new_password) < MIN_PASSWORD_LEN)
        => /\ last.status # 200
           /\ users = last.pre
           /\ \A p \in PasswordsTried :
                SignsIn(users, PasswordCaller.username, p)
                    = SignsIn(last.pre, PasswordCaller.username, p)

\* C12 as stated: a change_password whose old password does not verify or
\* whose new password is shorter than 8 characters fails and leaves the
\* stored hash unchanged; after a successful one the new password verifies
\* and signs in and the old password no longer does.
C12_OldPasswordRetired ==
    /\ C12_FailureKeepsHash
    /\ (PasswordCommand /\ last.status = 200)
        => /\ verify_password(users[PasswordCaller.id], last.req.new_password)
           /\ SignsIn(users, PasswordCaller.username, last.req.new_password)
           /\ ~verify_password(users[PasswordCaller.id], last.req.old_password)
           /\ ~SignsIn(users, PasswordCaller.username, last.req.old_password)

\* C12 amended: as above, but the old password stops verifying only when
\* bcrypt tells it from the new one, that is when the two differ within the
\* first 72 bytes; a change to the same password succeeds and keeps it valid.
C12_OldPasswordRetiredWhenDistinct ==
    /\ C12_FailureKeepsHash
    /\ (PasswordCommand /\ last.status = 200)
        => /\ verify_password(users[PasswordCaller.id], last.req.new_password)
           /\ SignsIn(users, PasswordCaller.username, last.req.new_password)
           /\ BcryptInput(last.req.old_password) # BcryptInput(last.req.new_password)
                => /\ ~verify_password(users[PasswordCaller.id], last.req.old_password)
                   /\ ~SignsIn(users, PasswordCaller.username, last.req.old_password)

\* a password was replaced by a different one
C12_Witness ==
    /\ PasswordCommand
    /\ last.status = 200
    /\ last.req.old_password = P_one
    /\ last.req.new_password = P_long_a
    /\ ~SignsIn(users, PasswordCaller.username, P_one)

\* a create request of an authenticated general user
CreateByCaller == last.op = "create_event" /\ last.status \notin {401, 403}

CreateCaller == last.pre[ParseInt(last.tok.sub)]

\* the business conditions of create_event on the last request
CreateConditions ==
    /\ Strip(last.req.title) # <<>>
    /\ ensure_utc(last.req.event_date) >= last.at

\* exactly one reminder, pending and owned by the caller, was added
OnePendingAdded ==
    \E id \in DOMAIN events \ DOMAIN last.pre_events :
        /\ DOMAIN events = DOMAIN last.pre_events \cup {id}
        /\ \A i \in DOMAIN last.pre_events : events[i] = last.pre_events[i]
        /\ events[id].status = PENDING
        /\ events[id].user_id = IdStr(CreateCaller.id)
        /\ events[id].event_date = ensure_utc(last.req.event_date)

\* C13 as stated: create_event succeeds exactly when the title is not blank
\* and the event date (a naive one taken as UTC) is >= the current time; on
\* success exactly one pending reminder owned by the authenticated caller is
\* persisted whatever user_id the body carried, on failure none is.
C13_CreateExactlyWhenValid ==
    CreateByCaller =>
        /\ (last.status = 201) <=> CreateConditions
        /\ last.status = 201 => OnePendingAdded
        /\ last.status # 201 => events = last.pre_events

\* C13 amended: the equivalence holds for bodies that pass the request
\* model, that is with a non-empty user_id and a title of at most 200
\* characters; any other body is refused and persists nothing.
C13_CreateExactlyWhenValidBody ==
    CreateByCaller =>
        /\ (last.req.user_id # "" /\ Len(last.req.title) <= TITLE_MAX_LEN)
              => ((last.status = 201) <=> CreateConditions)
        /\ (last.req.user_id = "" \/ Len(last.req.title) > TITLE_MAX_LEN)
              => last.status # 201
        /\ last.status = 201 => OnePendingAdded
        /\ last.status # 201 => events = last.pre_events

\* a reminder dated exactly now was created for the caller although the body
\* named another user
C13_Witness ==
    /\ CreateByCaller
    /\ last.status = 201
    /\ last.req.event_date.t = last.at
    /\ last.req.user_id # IdStr(CreateCaller.id)
    /\ OnePendingAdded

\* an update_event on a stored reminder that reached Event.reschedule
Rescheduled ==
    /\ LastOnStored("update_event")
    /\ last.date.some
    /\ ~TitleRefused(last.title)

\* C14: rescheduling a reminder to a date strictly before the current time
\* fails with the validation error and leaves event_date unchanged;
\* rescheduling to a date equal to or later than the current time succeeds
\* and sets event_date to the new date.
C14_RescheduleBoundary ==
    Rescheduled =>
        IF last.date.v < last.at
        THEN /\ last.err = ERR_RESCHEDULE_PAST
             /\ events[last.id].event_date = last.pre.event_date
        ELSE /\ last.err = OK
             /\ events[last.id].event_date = last.date.v

\* a reminder was moved to the current instant itself
C14_Witness ==
    /\ Rescheduled
    /\ last.date.v = last.at
    /\ last.pre.event_date # last.at
    /\ last.err = OK
    /\ events[last.id].event_date = last.at

\* C15: in every reachable state every stored reminder's title contains at
\* least one non-whitespace character, whatever create and update commands
\* ran; an update command whose title is the empty string or whitespace only
\* never changes the stored title.
C15_TitleNeverBlank ==
    /\ \A id \in DOMAIN events : Strip(events[id].title) # <<>>
    /\ (/\ LastOnStored("update_event")
        /\ last.title.some
        /\ Strip(last.title.v) = <<>>)
          => events[last.id].title = last.pre.title

\* a whitespace-only title was refused and an empty one was passed over
C15_Witness ==
    /\ LastOnStored("update_event")
    /\ last.title.some
    /\ Strip(last.title.v) = <<>>
    /\ \/ last.title.v = TitleBlank /\ last.err = ERR_TITLE_EMPTY
       \/ last.title.v = <<>> /\ last.err = OK /\ last.date.some
    /\ Strip(events[last.id].title) # <<>>

WriteOps == {"update_event", "delete_event", "complete_event", "cancel_event"}

\* a write request on a stored reminder by an authenticated user who does
\* not own it
WriteByStranger ==
    /\ last.op \in WriteOps
    /\ last.status # 401
    /\ last.id \in DOMAIN last.pre_events
    /\ last.pre_events[last.id].user_id # last.tok.sub

\* the reminders a request changed or removed
Touched ==
    {id \in DOMAIN last.pre_events :
        id \notin DOMAIN events \/ events[id] # last.pre_events[id]}

\* reminders are only changed or removed by requests of their owner
OnlyOwnerWrites ==
    last.op \in ReminderOps =>
        \A id \in Touched : last.pre_events[id].user_id = last.tok.sub

\* C16 as stated: an update, delete, complete or cancel request on an
\* existing reminder by an authenticated user who is not its owner is
\* rejected with 403 and leaves the reminder unchanged; hence a reminder is
\* only ever modified or deleted by requests authenticated as its owner.
C16_StrangerIs403 ==
    /\ WriteByStranger => (last.status = 403 /\ events = last.pre_events)
    /\ OnlyOwnerWrites

\* C16 amended: such a request is always rejected and leaves the reminder
\* unchanged; the answer is 403 unless it is an update whose body fails
\* request validation, which is answered 422 before ownership is looked at.
C16_StrangerRejected ==
    /\ WriteByStranger =>
          /\ events = last.pre_events
          /\ last.status =
                (IF last.op = "update_event" /\ ~UpdateEventRequestValid(last.req)
                 THEN 422 ELSE 403)
    /\ OnlyOwnerWrites

\* a delete of another user's reminder was refused and the reminder is there
C16_Witness ==
    /\ WriteByStranger
    /\ last.op = "delete_event"
    /\ last.status = 403
    /\ last.id \in DOMAIN events
    /\ \E i \in DOMAIN last.pre : IdStr(last.pre[i].id) = last.tok.sub

ReadOps == {"get_all_events", "get_event", "get_events_by_date", "get_upcoming_events"}

\* the account that made the last reminder request
ReadCaller == last.pre[ParseInt(last.tok.sub)]

\* the last request was a read by an authenticated account
ReadByCaller == last.op \in ReadOps /\ last.status # 401

\* what a read returned to a user whose stored role is not admin is that
\* user's own
OwnRowsOnly ==
    (ReadByCaller /\ ~is_admin(ReadCaller)) =>
        /\ \A e \in last.rows : e.user_id = IdStr(ReadCaller.id)
        /\ (/\ last.op = "get_event"
            /\ last.id \in DOMAIN events
            /\ events[last.id].user_id # IdStr(ReadCaller.id)) => last.status = 403

\* the pending reminders dated now or later
UpcomingOfAll(evs, t) == {e \in find_all(evs) : e.status = PENDING /\ e.event_date >= t}

\* what a read returned to the account registered as an administrator
\* covers every user
AllRowsToAdmin ==
    (ReadByCaller /\ RoleBodies[ReadCaller.id].role = ADMIN) =>
        /\ last.op = "get_all_events" =>
              (last.status = 200 /\ last.rows = find_all(events))
        /\ last.op = "get_event" =>
              IF last.id \in DOMAIN events
              THEN last.status = 200 /\ last.rows = {events[last.id]}
              ELSE last.status = 404
        /\ last.op = "get_events_by_date" =>
              (last.status = 200 /\ last.rows = find_by_date(events, last.id))
        /\ last.op = "get_upcoming_events" =>
              (last.status = 200 /\ last.rows = UpcomingOfAll(events, last.at))

\* C17: every reminder returned to a non-admin user by the list, by-id,
\* by-date and upcoming reads has user_id equal to that user's id (by-id on
\* another user's reminder answers 403), while an admin user receives the
\* reminders of all users.
C17_ReadScoping == OwnRowsOnly /\ AllRowsToAdmin

\* the ids handed out so far whose reminders are no longer stored
GoneIds == {id \in 1..(nextEventId - 1) : id \notin DOMAIN events}

\* a successful delete removes the row and nothing else
DeleteRemoves ==
    (last.op = "delete_event" /\ last.status = 204) =>
        /\ last.id \in DOMAIN last.pre_events
        /\ DOMAIN events = DOMAIN last.pre_events \ {last.id}
        /\ \A i \in DOMAIN events : events[i] = last.pre_events[i]

\* a request of an authenticated user for an id that has no reminder is
\* answered not-found and changes nothing
AbsentIsNotFound ==
    (/\ last.op \in WriteOps \cup {"get_event"}
     /\ last.status # 401
     /\ last.id \notin DOMAIN last.pre_events)
        => /\ events = last.pre_events
           /\ last.rows = {}
           /\ (last.op = "update_event" => UpdateEventRequestValid(last.req))
                 => (last.status = 404 /\ last.err = ERR_EVENT_NOT_FOUND)

\* the list reads return stored reminders only
ListsReturnStored ==
    last.op \in {"get_all_events", "get_events_by_date"} =>
        \A e \in last.rows : e.id \in DOMAIN events /\ e.id \notin GoneIds

\* C18: delete is a hard delete. After a successful delete the reminder is
\* absent from every later state: get by id answers 404, update, complete,
\* cancel and delete on that id fail with not-found (a well-formed request of
\* an authenticated user being understood), and no list read returns it;
\* delete of an id that does not exist fails with not-found and changes
\* nothing.
C18_HardDelete ==
    /\ [](DeleteRemoves /\ AbsentIsNotFound /\ ListsReturnStored)
    /\ [][\A id \in GoneIds : id \notin DOMAIN events']_vars

\* a deleted reminder was asked for and not found, while a later one exists
C18_Witness ==
    /\ last.op = "get_event"
    /\ last.status = 404
    /\ last.id \in GoneIds
    /\ DOMAIN events # {}

\* C19: a sign-up that fails for any reason (duplicate username, duplicate
\* email, email without '@', username length outside 3..50, password shorter
\* than 8 characters) persists no user and returns no tokens: the users after
\* the failed call are the users before it.
C19_FailedSignUpPersistsNothing ==
    (last.op = "sign_up" /\ last.status # 201)
        => /\ users = last.pre
           /\ last.access = NoToken
           /\ last.refresh = NoToken

\* a second registration of a stored email under a new username was refused
C19_Witness ==
    /\ last.op = "sign_up"
    /\ last.status = 400
    /\ last.err = ERR_EMAIL_REGISTERED
    /\ users = last.pre
    /\ users # <<>>
    /\ \A i \in DOMAIN users : users[i].username # Strip(Lower(last.req.username))

\* an update_event on a stored reminder with a title that is accepted and a
\* date before the current time
TitleWithPastDate ==
    /\ LastOnStored("update_event")
    /\ last.title.some
    /\ Strip(last.title.v) # <<>>
    /\ last.date.some
    /\ last.date.v < last.at

\* C20: update_event is all-or-nothing: a command carrying a valid title and
\* an event date that is rejected (before now) fails, and neither the title
\* nor the event date of the stored reminder changes; the reminder read
\* afterwards is exactly the one stored before the command.
C20_UpdateAllOrNothing ==
    TitleWithPastDate =>
        /\ last.err = ERR_RESCHEDULE_PAST
        /\ events[last.id] = last.pre

\* a new title came with a past date and the stored title is the old one
C20_Witness ==
    /\ TitleWithPastDate
    /\ last.title.v # last.pre.title
    /\ last.err = ERR_RESCHEDULE_PAST
    /\ events[last.id].title = last.pre.title

\* a profile request of an authenticated active user
ProfileByCaller == last.op = "update_profile" /\ last.status \notin {401, 403}

ProfileCaller == last.pre[ParseInt(last.tok.sub)]

\* the email of the request is one update_profile refuses: it has no '@', or
\* it is, once lowercased and trimmed, the email of another user
EmailRejected ==
    /\ last.req.email.some
    /\ last.req.email.v # <<>>
    /\ \/ ~Contains(last.req.email.v, "@")
       \/ \E i \in DOMAIN last.pre :
            /\ i # ProfileCaller.id
            /\ last.pre[i].email = Strip(Lower(last.req.email.v))

\* C21: update_profile is a non-destructive partial update: a field that is
\* not supplied keeps its stored value, and when the supplied email is
\* rejected (no '@', or registered to another user) the command fails and
\* neither full_name nor email changes in the store, even if a valid
\* full_name came in the same command.
C21_PartialUpdate ==
    ProfileByCaller =>
        /\ ~last.req.full_name.some =>
              users[ProfileCaller.id].full_name = ProfileCaller.full_name
        /\ ~last.req.email.some =>
              users[ProfileCaller.id].email = ProfileCaller.email
        /\ EmailRejected => (last.status # 200 /\ users = last.pre)
        /\ \A i \in DOMAIN last.pre : i # ProfileCaller.id => users[i] = last.pre[i]

\* a new name came with another user's email and the stored name is the old one
C21_Witness ==
    /\ ProfileByCaller
    /\ EmailRejected
    /\ Contains(last.req.email.v, "@")
    /\ last.req.full_name.some
    /\ last.req.full_name # ProfileCaller.full_name
    /\ last.status = 400
    /\ users[ProfileCaller.id].full_name = ProfileCaller.full_name

\* a deactivate request with a verified token of a stored user
DeactivateByHolder ==
    /\ last.op = "deactivate"
    /\ Unexpired(last.tok, last.at)
    /\ ParseInt(last.tok.sub) \in DOMAIN last.pre

DeactivateSubject == ParseInt(last.tok.sub)

TargetStatus(op) == IF op = "complete_event" THEN COMPLETED ELSE CANCELLED

\* the last answer is to a complete or cancel request that read its
\* reminder while it was pending and found the row stored at every later step
TransitionReadPending ==
    /\ last.op \in {"complete_event", "cancel_event"}
    /\ last.loaded.id = last.id
    /\ last.loaded.status = PENDING
    /\ EventExists(last.pre_events, last.id)

\* C23: a complete or cancel request that read the reminder as pending is
\* not rejected whatever another such request committed meanwhile: it
\* reports success and the stored status is its own, so of two interleaved
\* requests the one that commits last decides the status
C23_LastWriterWins ==
    TransitionReadPending =>
        /\ last.status = 200
        /\ last.err = OK
        /\ events[last.id].status = TargetStatus(last.op)

\* a complete request succeeded on a reminder a concurrent cancel had
\* already committed, and the stored status is now completed
C23_Witness ==
    /\ TransitionReadPending
    /\ last.op = "complete_event"
    /\ last.status = 200
    /\ last.pre_events[last.id].status = CANCELLED
    /\ events[last.id].status = COMPLETED

\* ------------------------------------------------------------------------
\* Concurrent duplicate sign-up
\* ------------------------------------------------------------------------
\* C24: a sign-up answered when a user with its normalized username or
\* email is stored, whether that user was there at its existence checks or
\* was persisted by a concurrent sign-up after them, creates no user and is
\* answered 400, never 500.
C24_RaceLoserIs400 ==
    (last.op = "sign_up" /\ DuplicateSignUp(last.pre, last.req))
        => /\ last.status = 400
           /\ last.status # 500
           /\ users = last.pre

\* ------------------------------------------------------------------------
\* Writes to a reminder that is gone
\* ------------------------------------------------------------------------
\* the last answer is to a write request of an authenticated general user
\* with a well-formed body, given by the controller's check or the
\* service's lookup when no reminder with that id was stored
UnknownAtLookup ==
    /\ last.op \in {"update_event", "delete_event", "complete_event", "cancel_event"}
    /\ get_current_general_user(last.pre, last.tok, last.at).status = 200
    /\ UpdateEventRequestValid(last.req)
    /\ last.pc \in {"controller", "service"}
    /\ ~EventExists(last.pre_events, last.id)

\* C25: an update, complete, cancel or delete request for an id with no
\* reminder when the handler or the command service looks it up is answered
\* 404, also when a concurrent request deleted the reminder between the
\* controller's ownership check and the service's lookup.
C25_UnknownIs404 == UnknownAtLookup => last.status = 404

\* ------------------------------------------------------------------------
\* Writes by administrators
\* ------------------------------------------------------------------------
\* the last answer is to a reminder write by an authenticated active
\* account that registered with role admin_user
WriteByAdmin ==
    /\ last.op \in {"create_event", "update_event", "delete_event", "complete_event",
                    "cancel_event"}
    /\ get_current_user(last.pre, last.tok, last.at).status = 200
    /\ RoleBodies[ParseInt(last.tok.sub)].role = ADMIN

\* C26: a request to create, update, delete, complete or cancel a reminder
\* by an active administrator is answered 403 and changes no reminder,
\* whoever owns the target.
C26_AdminWritesRefused ==
    WriteByAdmin => (last.status = 403 /\ events = last.pre_events)

\* ------------------------------------------------------------------------
\* GET /events/upcoming
\* ------------------------------------------------------------------------
\* the pending reminders of a user dated t or later (find_upcoming's WHERE)
UpcomingOfUser(evs, uid, t) ==
    {e \in find_by_user(evs, uid) : e.status = PENDING /\ e.event_date >= t}

\* C27: GET /events/upcoming with a valid token of an active general user
\* is answered 200 with exactly that user's reminders that are pending and
\* dated at the current time or later.
C27_UpcomingServed ==
    (/\ last.op = "get_upcoming_events"
     /\ get_current_general_user(last.pre, last.tok, last.at).status = 200)
        => /\ last.status = 200
           /\ last.rows = UpcomingOfUser(last.pre_events, last.tok.sub, last.at)

\* ------------------------------------------------------------------------
\* Token kinds
\* ------------------------------------------------------------------------
\* C28: refresh mints an access token only from a token whose type is
\* refresh, and a bearer-protected endpoint grants access only to a token
\* whose type is access; a signed, unexpired token of the other kind is
\* rejected.
C28_KindsNotInterchangeable ==
    /\ (last.op = "refresh" /\ last.status = 200) => last.tok.type = "refresh"
    /\ (last.op \in {"me", "change_password", "update_profile", "deactivate"}
            /\ last.status \in {200, 204})
          => last.tok.type = "access"

\* ------------------------------------------------------------------------
\* Deactivation is final
\* ------------------------------------------------------------------------
\* a user that is inactive stays stored and inactive in the next state, and
\* no other record takes its username
StaysInactive ==
    \A i \in UserIds(users) :
        ~users[i].is_active =>
            /\ i \in UserIds(users')
            /\ users'[i].id = users[i].id
            /\ ~users'[i].is_active
            /\ \A j \in UserIds(users') :
                  j # i => users'[j].username # users[i].username

\* the account a granted request acted for: the subject of the token minted
\* by sign-in and refresh, of the token presented elsewhere
GrantedTo ==
    IF last.op \in {"sign_in", "refresh"} THEN ParseInt(last.access.sub)
    ELSE ParseInt(last.tok.sub)

\* a sign-in, a refresh or a bearer-protected request was granted
Granted ==
    /\ last.op \in {"sign_in", "refresh", "me", "change_password", "update_profile",
                    "deactivate"}
    /\ last.status \in {200, 204}

\* C29: once a user's is_active is false it is false in every later state
\* and the record is neither removed nor created again, and no sign-in,
\* refresh or bearer-protected request is granted for such a user.
C29_DeactivationIsFinal ==
    /\ [][StaysInactive]_vars
    /\ [](Granted => last.pre[GrantedTo].is_active)

\* a deactivated user tried to sign in with the right password and was
\* refused, and is inactive still
C29_Witness ==
    /\ last.op = "sign_in"
    /\ last.status = 401
    /\ last.err = ERR_DEACTIVATED
    /\ \E i \in UserIds(users) :
          /\ ~users[i].is_active
          /\ ~last.pre[i].is_active
          /\ verify_password(users[i], last.req.password)

\* ------------------------------------------------------------------------
\* Frame conditions
\* ------------------------------------------------------------------------
\* what a step leaves alone in the reminders that stay stored
ReminderFrame ==
    \A id \in DOMAIN events \cap DOMAIN events' :
        /\ events'[id].id = events[id].id
        /\ events'[id].user_id = events[id].user_id
        /\ events'[id].created_at = events[id].created_at
        /\ (events'[id] # events[id] /\ last'.op \in {"complete_event", "cancel_event"})
              => /\ events'[id].title = events[id].title
                 /\ events'[id].event_date = events[id].event_date
        /\ (events'[id] # events[id] /\ last'.op = "update_event")
              => events'[id].status = events[id].status

\* what a step leaves alone in the users
UserFrame ==
    \A i \in UserIds(users) :
        /\ i \in UserIds(users')
        /\ users'[i].id = users[i].id
        /\ users'[i].username = users[i].username
        /\ users'[i].role = users[i].role

\* C30: complete and cancel change only a reminder's status and updated_at,
\* update_event only its title, event_date and updated_at; no step changes a
\* reminder's id, user_id or created_at, nor a user's id, username or role.
C30_Frame == [][ReminderFrame /\ UserFrame]_vars

\* a complete request committed after a concurrent update: the row keeps
\* the title and the date the update wrote, which the complete had not read
C30_Witness ==
    /\ last.op = "complete_event"
    /\ last.status = 200
    /\ last.loaded.title # last.pre_events[last.id].title
    /\ last.loaded.event_date # last.pre_events[last.id].event_date
    /\ events[last.id].title = last.pre_events[last.id].title
    /\ events[last.id].event_date = last.pre_events[last.id].event_date
    /\ events[last.id].status = COMPLETED
    /\ \E i \in UserIds(users) : users[i].email # OneReminder.users[i].email

====
